---- MODULE Spec2Model ----
(***************************************************************************)
(* Verification model of the crypto-loans backend (backend/store.py and    *)
(* backend/server.py): the loan store with its audit log, the wallet/IBAN  *)
(* binding registry, terms-acceptance validation, the create-loan          *)
(* pipeline, the chain event handlers and workers, and the risk monitor.   *)
(*                                                                         *)
(* Text values are sequences of one-character strings so that the          *)
(* normalisations of the code (strip, lower, upper, whitespace removal)    *)
(* are computed, not assumed.  SHA-256 is modelled as an injective         *)
(* function of its input bytes: a digest is represented by the byte        *)
(* string that was fed to it.                                              *)
(***************************************************************************)
EXTENDS Integers, Sequences, FiniteSets, TLC

VARIABLES
    \* ---- binding registry (store.py monerium_links) and its callers
    links,        \* rows of table monerium_links
    lk,           \* per thread: the link_monerium_wallet / handler call in progress
    clock,        \* time.time(), in whole seconds
    accountLib,   \* whether eth_account (Account, encode_defunct, ...) was importable
    firstLinkTs,  \* history: per wallet key, timestamp of the first applied link
    lastLink,     \* history: per wallet key, the call applied last
    linkAudit,    \* history: how each binding written by the HTTP handler came about
    reqOut,       \* outcome of the last require_monerium_link call
    \* ---- terms-acceptance validation (server.py _validate_terms_acceptance)
    tReq,         \* the arguments of the call: payload and borrower wallet
    tRes,         \* what the call returned or raised ("pending" before it ran)
    \* ---- loan store (store.py tables loans, events, terms_acceptance)
    loans,        \* per loan identifier: the stored record, or NoLoan
    events,       \* table events in id order: <<[loan, event], ...>>
    termsRows,    \* rows of table terms_acceptance
    \* ---- payment rail and the redemption queue
    redeems,      \* history: the redemptions the rail executed
    checked,      \* history: (wallet, IBAN) pairs a require_monerium_link call let pass
    queue,        \* MONERIUM_QUEUE: the work items waiting
    \* ---- threads of server.py
    http,         \* the HTTP request being served
    resp,         \* the last HTTP response sent
    hnd,          \* per chain event type: the handler call in progress
    mon,          \* the RiskMonitor thread
    qw,           \* the MONERIUM_QUEUE worker thread
    used,         \* how many requests, logs and monitor cycles were started
    coord,        \* which chain coordinators are available()
    \* ---- one EventWorker thread (server.py EventWorker.run)
    ew,           \* its position, _last_block, the height it read, the logs left
    fetched,      \* history: the block range of its last get_logs call
    \* ---- a TaskQueue with callbacks of known behaviour (server.py TaskQueue)
    tq,           \* its queue, workers, stop flag, and per task the calls made
    \* ---- a caller of the LoanStore methods (store.py)
    api,          \* the last call: method, arguments, what it returned
    \* ---- the lock of the store and the threads inside its methods (store.py)
    sl,           \* who holds self._lock; per thread the method and the steps left
    \* ---- the price oracle (server.py PriceOracleClient)
    oracle        \* its static price, its cache, the time, the last call's outcome

linkVars == <<links, lk, clock, accountLib, firstLinkTs, lastLink, linkAudit, reqOut>>

termsVars == <<tReq, tRes>>

storeVars == <<loans, events, termsRows>>

railVars == <<redeems, checked, queue>>

procVars == <<http, resp, hnd, mon, qw, used, coord>>

workerVars == <<ew, fetched>>

taskVars == <<tq>>

apiVars == <<api>>

lockVars == <<sl>>

oracleVars == <<oracle>>

vars == <<linkVars, termsVars, storeVars, railVars, procVars, workerVars, taskVars,
          apiVars, lockVars, oracleVars>>

\* what the actions of one component leave alone
notLink == <<termsVars, storeVars, railVars, procVars, workerVars, taskVars, apiVars,
            lockVars, oracleVars>>
notTerms == <<linkVars, storeVars, railVars, procVars, workerVars, taskVars, apiVars,
             lockVars, oracleVars>>
notWorker == <<linkVars, termsVars, storeVars, railVars, procVars, taskVars, apiVars,
              lockVars, oracleVars>>
notServer == <<linkVars, termsVars, workerVars, taskVars, apiVars, lockVars, oracleVars>>
notTask == <<linkVars, termsVars, storeVars, railVars, procVars, workerVars, apiVars,
            lockVars, oracleVars>>
notApi == <<linkVars, termsVars, railVars, procVars, workerVars, taskVars, lockVars, oracleVars>>
notLock == <<linkVars, termsVars, storeVars, railVars, procVars, workerVars, taskVars,
            apiVars, oracleVars>>

notOracle == <<linkVars, termsVars, storeVars, railVars, procVars, workerVars, taskVars,
              apiVars, lockVars>>

----------------------------------------------------------------------------
(* Text helpers                                                            *)

Lower(c) ==
    CASE c = "A" -> "a"
      [] c = "B" -> "b"
      [] c = "X" -> "x"
      [] OTHER -> c

Upper(c) ==
    CASE c = "a" -> "A"
      [] c = "b" -> "B"
      [] c = "x" -> "X"
      [] OTHER -> c

IsSpace(c) == c = " "

\* str.lower()
StrLower(s) == [i \in 1..Len(s) |-> Lower(s[i])]

\* str.upper()
StrUpper(s) == [i \in 1..Len(s) |-> Upper(s[i])]

RECURSIVE LStrip(_)
LStrip(s) ==
    IF s = <<>> THEN <<>>
    ELSE IF IsSpace(Head(s)) THEN LStrip(Tail(s)) ELSE s

RECURSIVE RStrip(_)
RStrip(s) ==
    IF s = <<>> THEN <<>>
    ELSE IF IsSpace(s[Len(s)]) THEN RStrip(SubSeq(s, 1, Len(s) - 1)) ELSE s

\* str.strip()
Strip(s) == RStrip(LStrip(s))

\* "".join(s.split()): every whitespace character removed
RemoveSpaces(s) == SelectSeq(s, LAMBDA c : ~IsSpace(c))

normalize_iban(iban) == StrUpper(RemoveSpaces(iban))

\* wallet.strip().lower()
NormWallet(w) == StrLower(Strip(w))

Empty == <<>>

----------------------------------------------------------------------------
(* Input domains                                                           *)

MaxClock == 1

\* wallet strings as callers may pass them (casing and padding vary)
RawWallets == { <<"A">>, <<" ", "a">>, <<"b">>, <<" ">> }

\* IBAN strings as callers may pass them; Empty stands for None / ""
RawIbans == { <<"B", "1">>, <<"b", " ", "1">>, <<"A", "1">>, Empty }

\* rail user ids as callers may pass them; Empty stands for None / ""
RawUsers == { <<"1">>, <<"1", " ">>, <<"b">>, Empty }

\* addresses as eth_account returns them (checksum casing)
SignerAddrs == { <<"A">>, <<"B">> }

\* a signature string: absent, malformed, or a valid signature of the
\* submitted message made by the key of `signer`
SigNone == [kind |-> "none", signer |-> Empty]
SigBad == [kind |-> "bad", signer |-> Empty]
SigBy(a) == [kind |-> "by", signer |-> a]
Sigs == {SigNone, SigBad} \cup {SigBy(a) : a \in SignerAddrs}

\* opaque metadata blobs
Metas == { Empty, <<"1">> }

\* what a direct caller of the store passes as signature and metadata: the
\* store treats both as opaque
Opaque == { [signature |-> SigBy(<<"A">>), metadata |-> <<"1">>] }

\* the accounts the payment rail knows: user id and IBAN as the rail prints it
RailAccounts ==
    { [user |-> <<"1">>, iban |-> <<"b", "1">>],
      [user |-> <<"b">>, iban |-> <<"A", " ", "1">>] }

LinkThreads == {"t1", "t2"}

----------------------------------------------------------------------------
(* Binding registry: store.py                                              *)

\* hashlib.sha256 over wallet, IBAN and user id fed one after the other
BindingHash(wallet_norm, iban_norm, user_norm) ==
    wallet_norm \o iban_norm \o user_norm

\* _fetch_monerium_link: SELECT ... WHERE wallet = ?  (the key is lower-cased)
FetchLink(rows, wallet) == {r \in rows : r.wallet = StrLower(wallet)}

\* get_monerium_link: strip and lower-case the wallet, then fetch
GetLink(rows, wallet) == FetchLink(rows, NormWallet(wallet))

\* the argument checks of link_monerium_wallet; "ok" when none raises
LinkArgError(wallet, iban, user) ==
    IF NormWallet(wallet) = Empty THEN "wallet is required"
    ELSE IF normalize_iban(iban) = Empty THEN "iban is required"
    ELSE IF Strip(user) = Empty THEN "monerium_user_id is required"
    ELSE "ok"

\* UpsertLink with created_at overwritten on conflict, as it would be if the
\* ON CONFLICT clause listed created_at = excluded.created_at
UpsertLink_OverwriteCreated(rows, wallet_norm, iban_norm, user_norm, signature, metadata, timestamp) ==
    {r \in rows : r.wallet # wallet_norm} \cup
    {[wallet |-> wallet_norm, iban |-> iban_norm, user |-> user_norm,
      bindingHash |-> wallet_norm \o iban_norm \o user_norm,
      signature |-> signature, metadata |-> metadata,
      createdAt |-> timestamp, updatedAt |-> timestamp]}

\* the INSERT ... ON CONFLICT(wallet) DO UPDATE of link_monerium_wallet,
\* executed under the store lock: created_at is kept from an existing row
UpsertLink(rows, wallet_norm, iban_norm, user_norm, signature, metadata, timestamp) ==
    LET existing == FetchLink(rows, wallet_norm)
        created_at == IF existing # {}
                      THEN (CHOOSE r \in existing : TRUE).createdAt
                      ELSE timestamp
        row == [wallet |-> wallet_norm,
                iban |-> iban_norm,
                user |-> user_norm,
                bindingHash |-> BindingHash(wallet_norm, iban_norm, user_norm),
                signature |-> signature,
                metadata |-> metadata,
                createdAt |-> created_at,
                updatedAt |-> timestamp]
    IN  {r \in rows : r.wallet # wallet_norm} \cup {row}

\* RequireOutcome without the IBAN comparison
RequireOutcome_NoIbanCheck(rows, wallet, iban, user) ==
    LET record == {r \in rows : r.wallet = StrLower(Strip(wallet))} IN
    IF record = {} THEN "monerium link not found"
    ELSE IF user # Empty /\ \E r \in record : Strip(user) # r.user
         THEN "monerium user id does not match linked account"
    ELSE "ok"

\* require_monerium_link: the error raised, or "ok"
RequireOutcome(rows, wallet, iban, user) ==
    LET record == GetLink(rows, wallet) IN
    IF record = {} THEN "monerium link not found"
    ELSE IF iban # Empty /\ \E r \in record : normalize_iban(iban) # r.iban
         THEN "iban does not match linked account"
    ELSE IF user # Empty /\ \E r \in record : Strip(user) # r.user
         THEN "monerium user id does not match linked account"
    ELSE "ok"

\* what require_monerium_link returns (nothing when it raises)
RequireRecord(rows, wallet, iban, user) ==
    IF RequireOutcome(rows, wallet, iban, user) = "ok"
    THEN GetLink(rows, wallet) ELSE {}

----------------------------------------------------------------------------
(* Terms acceptance: server.py                                             *)

\* TERMS_HASH: "0x" followed by the hex digest of the terms text
TERMS_HASH == <<"0", "x", "a", "b">>

\* TERMS_VERSION
TERMS_VERSION == <<"1">>

\* the repr of an address nobody holds the key of: what recovery yields
\* when the signature was made over another message
NoAddr == <<"x">>

\* eth_utils.to_checksum_address inside _checksum_address: the canonical
\* casing of an address; a value that is no address is returned unchanged
IsAddress(w) == StrLower(w) \in {StrLower(a) : a \in SignerAddrs}
ChecksumAddress(value) ==
    LET candidate == Strip(value) IN
    IF IsAddress(candidate) THEN StrUpper(candidate) ELSE candidate

\* a timestamp field of the JSON payload
TsNone == [k |-> "none", v |-> 0]
TsText == [k |-> "text", v |-> 0]
TsInt(n) == [k |-> "int", v |-> n]
\* Python truthiness of the field, and int() of it
TsTruthy(ts) == ts.k = "text" \/ (ts.k = "int" /\ ts.v # 0)
TsParses(ts) == ts.k = "int"

\* a typed-data signature: made by `signer` over the message (wallet,
\* termsHash, timestamp) in the terms domain
TermsSigBy(signer, wallet, termsHash, timestamp) ==
    [kind |-> "by", signer |-> signer, wallet |-> wallet,
     termsHash |-> termsHash, timestamp |-> timestamp]
TermsSigNone == [kind |-> "none", signer |-> Empty, wallet |-> Empty,
                 termsHash |-> Empty, timestamp |-> 0]
TermsSigBad == [kind |-> "bad", signer |-> Empty, wallet |-> Empty,
                termsHash |-> Empty, timestamp |-> 0]

\* Account.recover_message(encode_structured_data(typed_data), signature):
\* the signer when the signature was made over this very message
RecoverTyped(signature, message) ==
    IF /\ signature.wallet = message.wallet
       /\ signature.termsHash = message.termsHash
       /\ signature.timestamp = message.timestamp
    THEN signature.signer
    ELSE NoAddr

\* the termsAcceptance object of a request.  `keys` tells whether the
\* object has any key at all; a field that is absent, None or "" is Empty
\* (TsNone for the timestamp, TermsSigNone for the signature).
NoTerms ==
    [keys |-> FALSE, signature |-> TermsSigNone, wallet |-> Empty,
     termsHash |-> Empty, termsVersion |-> Empty, timestamp |-> TsNone]

TermsFail(status, reason) ==
    [ok |-> FALSE, status |-> status, reason |-> reason, wallet |-> Empty,
     termsHash |-> Empty, timestamp |-> 0, signature |-> TermsSigNone,
     termsVersion |-> Empty]

\* "0x" prefixed unless already there
WithHexPrefix(h) ==
    IF Len(h) >= 2 /\ SubSeq(h, 1, 2) = <<"0", "x">> THEN h ELSE <<"0", "x">> \o h

\* _coalesce_address: the first candidate that is not blank
CoalesceAddress(candidates) ==
    LET nonblank == SelectSeq(candidates, LAMBDA c : Strip(c) # Empty) IN
    IF nonblank = <<>> THEN Empty ELSE Strip(Head(nonblank))

\* the version comparison dropped
VersionMismatch_Never(provided_version) == FALSE

\* provided_version != TERMS_VERSION
VersionMismatch(provided_version) == provided_version # TERMS_VERSION

\* _validate_terms_acceptance(payload, borrower_wallet)
ValidateTermsAcceptance(lib, payload, borrower_wallet) ==
    LET wallet_candidate == CoalesceAddress(<<payload.wallet, borrower_wallet>>)
        borrower_norm == StrLower(Strip(borrower_wallet))
        wallet_norm == StrLower(Strip(wallet_candidate))
        stripped_hash == Strip(payload.termsHash)
        terms_hash_value == WithHexPrefix(stripped_hash)
        provided_version == IF payload.termsVersion # Empty
                            THEN payload.termsVersion ELSE TERMS_VERSION
        timestamp_raw == IF TsTruthy(payload.timestamp) THEN payload.timestamp ELSE TsNone
        timestamp == timestamp_raw.v
        message == [wallet |-> ChecksumAddress(wallet_candidate),
                    termsHash |-> StrLower(terms_hash_value),
                    timestamp |-> timestamp]
    IN  IF ~payload.keys
        THEN TermsFail(428, "terms acceptance is required")
        ELSE IF payload.signature.kind = "none"
        THEN TermsFail(400, "terms acceptance signature missing")
        ELSE IF wallet_candidate = Empty
        THEN TermsFail(428, "wallet is required for terms acceptance")
        ELSE IF borrower_norm # Empty /\ wallet_norm # borrower_norm
        THEN TermsFail(400, "terms acceptance wallet mismatch")
        ELSE IF stripped_hash = Empty
        THEN TermsFail(400, "terms hash missing")
        ELSE IF StrLower(terms_hash_value) # StrLower(TERMS_HASH)
        THEN TermsFail(400, "terms hash mismatch")
        ELSE IF VersionMismatch(provided_version)
        THEN TermsFail(400, "terms version mismatch")
        ELSE IF ~TsParses(timestamp_raw)
        THEN TermsFail(400, "terms timestamp invalid")
        ELSE IF timestamp <= 0
        THEN TermsFail(400, "terms timestamp invalid")
        ELSE IF ~lib
        THEN TermsFail(412, "terms signature validation unavailable")
        ELSE IF ~IsAddress(message.wallet)
        THEN TermsFail(400, "invalid terms acceptance payload")
        ELSE IF payload.signature.kind = "bad"
        THEN TermsFail(400, "invalid terms acceptance signature")
        ELSE IF StrLower(Strip(RecoverTyped(payload.signature, message))) # wallet_norm
        THEN TermsFail(400, "terms signature does not match wallet")
        ELSE [ok |-> TRUE, status |-> 200, reason |-> "ok",
              wallet |-> wallet_norm,
              termsHash |-> StrLower(terms_hash_value),
              timestamp |-> timestamp,
              signature |-> payload.signature,
              termsVersion |-> provided_version]

\* ---- validation applied to every payload of a bounded set
TermsWallets == { Empty, <<"A">>, <<" ", "a">>, <<"b">>, <<"1">> }
\* the borrower wallet the caller resolved: never blank
BorrowerWallets == { <<"A">>, <<"a">>, <<"B">>, <<"1">> }
TermsHashes == { Empty, TERMS_HASH, <<"0", "x", "A", "B">>, <<" ", "a", "b">>,
                 <<"0", "X", "a", "b">>, <<"0", "x", "b", "b">> }
TermsVersions == { Empty, <<"1">>, <<"b">> }
TermsTimestamps == { TsNone, TsText, TsInt(0), TsInt(-1), TsInt(2) }
TermsSignatures ==
    {TermsSigNone, TermsSigBad} \cup
    {TermsSigBy(s, w, TERMS_HASH, 2) : s \in SignerAddrs, w \in SignerAddrs} \cup
    {TermsSigBy(<<"A">>, <<"A">>, TERMS_HASH, 1),
     TermsSigBy(<<"A">>, <<"A">>, TERMS_HASH, -1),
     TermsSigBy(<<"A">>, <<"A">>, <<"0", "x", "b", "b">>, 2)}

TermsPayloads ==
    {NoTerms} \cup
    [keys : {TRUE}, signature : TermsSignatures, wallet : TermsWallets,
     termsHash : TermsHashes, termsVersion : TermsVersions,
     timestamp : TermsTimestamps]

NoTermsResult == [ok |-> FALSE, status |-> 0, reason |-> "pending", wallet |-> Empty,
                  termsHash |-> Empty, timestamp |-> 0, signature |-> TermsSigNone,
                  termsVersion |-> Empty]

TermsIdle ==
    /\ tReq = [payload |-> NoTerms, borrower |-> Empty]
    /\ tRes = NoTermsResult

\* one call of _validate_terms_acceptance
ValidateTerms ==
    /\ tRes.reason = "pending"
    /\ tRes' = ValidateTermsAcceptance(accountLib, tReq.payload, tReq.borrower)
    /\ UNCHANGED <<tReq, notTerms>>

----------------------------------------------------------------------------
(* Wallet-link handler: server.py                                          *)

\* _recover_wallet_from_signature: the error raised ("ok" when none) and
\* the wallet returned.  Without eth_account the hint is returned as is.
RecoverWallet(lib, signature, wallet_hint) ==
    LET hint_norm == IF wallet_hint # Empty THEN NormWallet(wallet_hint) ELSE Empty
        recovered == StrLower(signature.signer)
    IN  IF signature.kind = "none"
        THEN [err |-> "missing signature", wallet |-> Empty]
        ELSE IF lib
        THEN IF signature.kind = "bad"
             THEN [err |-> "invalid signature", wallet |-> Empty]
             ELSE IF hint_norm # Empty /\ hint_norm # recovered
             THEN [err |-> "signature does not match provided wallet", wallet |-> Empty]
             ELSE [err |-> "ok", wallet |-> recovered]
        ELSE IF hint_norm = Empty
             THEN [err |-> "wallet required to validate signature", wallet |-> Empty]
             ELSE [err |-> "ok", wallet |-> hint_norm]

\* MoneriumClient.verify_user_iban: the account entries of the user whose
\* IBAN normalises to the normalised IBAN asked for (none: the call raises)
VerifyUserIban(user, iban) ==
    IF user = Empty THEN {}
    ELSE {e \in RailAccounts :
            e.user = user /\ normalize_iban(e.iban) = normalize_iban(iban)}

IdleLink ==
    [pc |-> "idle", wallet |-> Empty, iban |-> Empty, user |-> Empty,
     signature |-> SigNone, metadata |-> Empty, ts |-> 0,
     via |-> "store", recovered |-> FALSE]

\* link_monerium_wallet up to the lock: normalise, check, take the
\* timestamp, compute the digest.  A ValueError leaves the thread idle.
BeginLink(t, wallet, iban, user, signature, metadata, via, recovered) ==
    IF LinkArgError(wallet, iban, user) = "ok"
    THEN lk' = [lk EXCEPT ![t] =
                  [pc |-> "write",
                   wallet |-> NormWallet(wallet),
                   iban |-> normalize_iban(iban),
                   user |-> Strip(user),
                   signature |-> signature,
                   metadata |-> metadata,
                   ts |-> clock,
                   via |-> via,
                   recovered |-> recovered]]
    ELSE lk' = lk

\* time passes
Tick ==
    /\ clock < MaxClock
    /\ clock' = clock + 1
    /\ UNCHANGED <<links, lk, accountLib, firstLinkTs, lastLink, linkAudit, reqOut, notLink>>

\* a direct call of LoanStore.link_monerium_wallet
LinkCall(t, wallet, iban, user, signature, metadata) ==
    /\ lk[t].pc = "idle"
    /\ BeginLink(t, wallet, iban, user, signature, metadata, "store", FALSE)
    /\ UNCHANGED <<links, clock, accountLib, firstLinkTs, lastLink, linkAudit, reqOut, notLink>>

\* _handle_monerium_link up to the point where the store takes its lock
HandleMoneriumLink(t, iban, user, signature, message, wallet_hint) ==
    LET iban_s == Strip(iban)
        user_s == Strip(user)
        rec == RecoverWallet(accountLib, signature, wallet_hint)
        accounts == VerifyUserIban(user_s, iban_s)
    IN  /\ lk[t].pc = "idle"
        /\ IF message = Empty \/ rec.err # "ok" \/ accounts = {}
           THEN lk' = lk
           ELSE \E entry \in accounts :
                  BeginLink(t, rec.wallet, iban_s, user_s, signature, entry.iban,
                            "handler", accountLib /\ signature.kind = "by")
        /\ UNCHANGED <<links, clock, accountLib, firstLinkTs, lastLink, linkAudit, reqOut, notLink>>

\* the locked section of link_monerium_wallet
LinkWrite(t) ==
    LET c == lk[t] IN
    /\ c.pc = "write"
    /\ links' = UpsertLink(links, c.wallet, c.iban, c.user, c.signature, c.metadata, c.ts)
    /\ lk' = [lk EXCEPT ![t] = [IdleLink EXCEPT !.pc = "read", !.wallet = c.wallet,
                                                 !.iban = c.iban, !.user = c.user]]
    /\ firstLinkTs' = IF c.wallet \in DOMAIN firstLinkTs THEN firstLinkTs
                      ELSE [w \in DOMAIN firstLinkTs \cup {c.wallet} |->
                              IF w = c.wallet THEN c.ts ELSE firstLinkTs[w]]
    /\ lastLink' = [w \in DOMAIN lastLink \cup {c.wallet} |->
                      IF w = c.wallet THEN [iban |-> c.iban, user |-> c.user]
                      ELSE lastLink[w]]
    /\ linkAudit' = IF c.via = "handler"
                    THEN linkAudit \cup {[wallet |-> c.wallet,
                                          signature |-> c.signature,
                                          recovered |-> c.recovered,
                                          iban |-> c.iban, user |-> c.user]}
                    ELSE linkAudit
    /\ UNCHANGED <<clock, accountLib, reqOut, notLink>>

\* record = self.get_monerium_link(wallet_norm) or {}: a second locked
\* read, taken after the lock was released; its result is what the call returns
LinkReturned(t) == GetLink(links, lk[t].wallet)

LinkReturn(t) ==
    /\ lk[t].pc = "read"
    /\ lk' = [lk EXCEPT ![t] = IdleLink]
    /\ UNCHANGED <<links, clock, accountLib, firstLinkTs, lastLink, linkAudit, reqOut, notLink>>

----------------------------------------------------------------------------
(* Event worker: server.py EventWorker                                     *)

\* the heights the chain client may report
MaxHeight == 3
\* the most logs one get_logs call returns
MaxLogs == 2

\* _last_block is None
NoBlock == -1

NoFetch == [from |-> NoBlock, to |-> NoBlock, tick |-> 0]

\* from_block = self._last_block + 1, dropped
FromBlock_SameBlock(last_block) == last_block

\* from_block = self._last_block + 1
FromBlock(last_block) == last_block + 1

\* the worker as constructed: start_block given or None; the contract has
\* the event or not. err and odd are history: whether the last pass ended
\* in the outer except clause, and the parity of the count of such passes
\* in a row. first and ranges are history: the first value of _last_block,
\* and for each block the count of get_logs calls that returned its logs
EwStart(start_block, has_event) ==
    /\ ew = [pc |-> "poll", last |-> start_block, latest |-> 0, todo |-> 0,
             logs |-> 0, failed |-> 0,
             hasEvent |-> has_event, stop |-> FALSE,
             err |-> FALSE, odd |-> FALSE,
             first |-> start_block, ranges |-> [b \in 1..MaxHeight |-> 0]]
    /\ fetched = NoFetch

\* stop(): the stop event is set
EwStop ==
    /\ ~ew.stop
    /\ ew.pc # "exited"
    /\ ew' = [ew EXCEPT !.stop = TRUE]
    /\ UNCHANGED <<fetched, notWorker>>

\* while not self._stop_event.is_set(): false
EwExit ==
    /\ ew.pc = "poll"
    /\ ew.stop
    /\ ew' = [ew EXCEPT !.pc = "exited"]
    /\ UNCHANGED <<fetched, notWorker>>

\* an exception of the pass that ends the thread
PassFailed_Exits(w) == [w EXCEPT !.pc = "exited"]

\* except Exception around the pass: the error is logged, and after the
\* sleep of the finally clause the loop tests the stop event again
PassFailed(w) ==
    [w EXCEPT !.pc = "poll", !.err = TRUE, !.odd = ~(w.err /\ w.odd)]

\* reading block_number raised: logged, the pass ends
EwPollFails ==
    /\ ew.pc = "poll"
    /\ ~ew.stop
    /\ ew' = PassFailed(ew)
    /\ UNCHANGED <<fetched, notWorker>>

\* the head of a pass: latest = block_number, then the comparisons with
\* _last_block and the lookup of the event
EwPoll(latest) ==
    LET last == IF ew.last = NoBlock THEN latest ELSE ew.last IN
    /\ ew.pc = "poll"
    /\ ~ew.stop
    /\ ew' = [ew EXCEPT !.latest = latest,
                        !.last = last,
                        !.first = IF ew.last = NoBlock THEN latest ELSE @,
                        !.err = FALSE, !.odd = FALSE,
                        !.pc = IF latest < last \/ latest = last \/ ~ew.hasEvent
                               THEN "poll" ELSE "fetch"]
    /\ UNCHANGED <<fetched, notWorker>>

\* the count of each block of a range that was fetched is one more
Fetched(ranges, from_block, to_block) ==
    [b \in DOMAIN ranges |->
        ranges[b] + (IF from_block <= b /\ b <= to_block THEN 1 ELSE 0)]

\* logs = event_abi().get_logs(fromBlock=from_block, toBlock=latest):
\* n logs are returned (ok), or the call raises and the pass ends
EwFetch(ok, n) ==
    /\ ew.pc = "fetch"
    /\ fetched' = [from |-> FromBlock(ew.last), to |-> ew.latest,
                   tick |-> 1 - fetched.tick]
    /\ ew' = IF ok THEN [ew EXCEPT !.pc = "handle", !.todo = n,
                                    !.logs = n, !.failed = 0,
                                    !.ranges = Fetched(@, FromBlock(ew.last), ew.latest)]
             ELSE PassFailed(ew)
    /\ UNCHANGED notWorker

\* the handler's exception left uncaught in the for loop: it reaches the
\* outer except, which ends the pass before _last_block is assigned
HandlerRaised_EndsPass(w) ==
    [w EXCEPT !.pc = "poll", !.failed = w.failed + 1]

\* except Exception inside the for loop: the failure is logged and the
\* loop goes on with the next log
HandlerRaised(w) ==
    [w EXCEPT !.todo = w.todo - 1, !.failed = w.failed + 1]

\* self.handler(log["args"], log) for the next log of the pass
EwHandle(raises) ==
    /\ ew.pc = "handle"
    /\ ew.todo > 0
    /\ ew' = IF raises THEN HandlerRaised(ew)
             ELSE [ew EXCEPT !.todo = ew.todo - 1]
    /\ UNCHANGED <<fetched, notWorker>>

\* the pass that ends without the assignment to _last_block
Advanced_KeepsLast(w) == [w EXCEPT !.pc = "poll"]

\* self._last_block = latest
Advanced(w) == [w EXCEPT !.pc = "poll", !.last = w.latest]

\* self._last_block = latest, after the last log of the pass
EwAdvance ==
    /\ ew.pc = "handle"
    /\ ew.todo = 0
    /\ ew' = Advanced(ew)
    /\ UNCHANGED <<fetched, notWorker>>

----------------------------------------------------------------------------
(* Loan store: store.py LoanStore                                          *)

\* identifiers given by the chain (0x-prefixed hex)
LoanIds == { "0x1", "0x2" }

\* identifier generated when neither the request nor a deposit gave one
GeneratedId == "loan-1"

\* str(None): what create makes of a payload without an identifier
NoneText == "None"

AllIds == LoanIds \cup { GeneratedId, NoneText }

\* loan_metadata["termsAcceptance"] of a loan that has none
NoSanitized ==
    [wallet |-> Empty, termsHash |-> Empty, timestamp |-> 0, termsVersion |-> Empty]

\* no row in table loans
NoLoan ==
    [status |-> "absent", borrower |-> Empty, iban |-> Empty,
     disburseVia |-> "none", principal |-> 0, collateralBTCb |-> 0,
     repaidAmount |-> 0, lastPriceEur |-> 0, defaultReason |-> "none",
     moneriumRedeem |-> FALSE, moneriumPayout |-> FALSE,
     termsAcceptance |-> NoSanitized, termsAcceptedAt |-> 0,
     termsAcceptedHash |-> Empty, termsSignature |-> TermsSigNone]

\* {"loanId": loan_id, "history": []}: a row without any other key
Scaffold == [NoLoan EXCEPT !.status = "unset"]

\* dict.update: the keys of fields replace those of the record
Merge(record, fields) ==
    [k \in DOMAIN record |-> IF k \in DOMAIN fields THEN fields[k] ELSE record[k]]

\* self._fetch(loan_id) or {"loanId": loan_id, "history": []}
FetchOrScaffold(ls, loan_id) ==
    IF ls[loan_id].status = "absent" THEN Scaffold ELSE ls[loan_id]

\* the row create persists: the payload with the defaults of setdefault;
\* _persist replaces the whole row
CreateRecord(payload) ==
    Merge([Scaffold EXCEPT !.status = "active"], payload)

\* LoanStore.create, the write (the loan-created event follows inside the lock)
StoreCreate(ls, loan_id, payload) ==
    [ls EXCEPT ![loan_id] = CreateRecord(payload)]

\* LoanStore.update
StoreUpdate(ls, loan_id, fields) ==
    [ls EXCEPT ![loan_id] = Merge(FetchOrScaffold(ls, loan_id), fields)]

\* mark_repaid that adds the amount to the one recorded before
MarkRepaid_Accumulate(ls, loan_id, amount) ==
    [ls EXCEPT ![loan_id] =
        Merge(FetchOrScaffold(ls, loan_id),
              [status |-> "repaid",
               repaidAmount |-> FetchOrScaffold(ls, loan_id).repaidAmount + amount])]

\* LoanStore.mark_repaid, the locked section
MarkRepaid(ls, loan_id, amount) ==
    [ls EXCEPT ![loan_id] =
        Merge(FetchOrScaffold(ls, loan_id),
              [status |-> "repaid", repaidAmount |-> amount])]

\* LoanStore.mark_default, the locked section
MarkDefault(ls, loan_id, reason) ==
    [ls EXCEPT ![loan_id] =
        Merge(FetchOrScaffold(ls, loan_id),
              [status |-> "defaulted", defaultReason |-> reason])]

\* update_health that starts a row for an unknown loan, as mark_default does
UpdateHealth_StartsRow(ls, loan_id, price_eur) ==
    [ls EXCEPT ![loan_id] = Merge(FetchOrScaffold(ls, loan_id),
                                  [lastPriceEur |-> price_eur])]

\* LoanStore.update_health, the locked section: nothing for an unknown loan
UpdateHealth(ls, loan_id, price_eur) ==
    IF ls[loan_id].status = "absent" THEN ls
    ELSE [ls EXCEPT ![loan_id] = Merge(ls[loan_id], [lastPriceEur |-> price_eur])]

\* record_event that keeps only the latest event of each loan
RecordEvent_KeepLatest(es, loan_id, event) ==
    Append(SelectSeq(es, LAMBDA e : e.loan # loan_id),
           [loan |-> loan_id, event |-> event])

\* LoanStore.record_event: one row appended to table events
RecordEvent(es, loan_id, event) ==
    Append(es, [loan |-> loan_id, event |-> event])

\* several record_event calls in a row by one thread, nothing in between
RecordEvents(es, loan_id, names) ==
    es \o [i \in 1..Len(names) |-> [loan |-> loan_id, event |-> names[i]]]

\* LoanStore.record_terms_acceptance: one row per wallet (ON CONFLICT(wallet))
RecordTermsAcceptance(rows, wallet, terms_hash, accepted_at) ==
    LET wallet_norm == StrLower(Strip(wallet))
        hash_value == WithHexPrefix(StrLower(Strip(terms_hash)))
    IN  {r \in rows : r.wallet # wallet_norm}
        \cup {[wallet |-> wallet_norm, termsHash |-> hash_value,
               acceptedAt |-> accepted_at]}

\* the caller of the store methods before its first call
NoPrev == [op |-> "none", id |-> "none", amount |-> 0, before |-> NoLoan, loan |-> NoLoan]

NoCall ==
    [op |-> "none", id |-> "none", given |-> "none", amount |-> 0, event |-> "none",
     ok |-> TRUE, found |-> FALSE, loan |-> NoLoan, hist |-> << >>,
     before |-> NoLoan, nev |-> 0, anon |-> {}, anonBefore |-> {}, prev |-> NoPrev,
     n |-> 0]

\* the threads that call the store
LockThreads == {"a", "b"}

\* the methods of the store that write, and list
StoreOps ==
    {"create", "update", "mark_repaid", "mark_default", "update_health",
     "record_event", "link_monerium_wallet", "record_terms_acceptance", "list"}

\* what a method does with the lock and the connection, in order: the
\* record_event call of create is made inside the with block, those of
\* mark_repaid, mark_default and update_health after it, and record_event
\* itself takes no lock
OpPlan(op) ==
    CASE op = "create" -> <<"acquire", "write", "write", "release">>
      [] op = "update" -> <<"acquire", "read", "write", "release">>
      [] op = "mark_repaid" -> <<"acquire", "read", "write", "release", "write">>
      [] op = "mark_default" -> <<"acquire", "read", "write", "release", "write">>
      [] op = "update_health" -> <<"acquire", "read", "write", "release", "write">>
      [] op = "record_event" -> <<"write">>
      [] op = "link_monerium_wallet" -> <<"acquire", "read", "write", "release",
                                          "acquire", "read", "release">>
      [] op = "record_terms_acceptance" -> <<"acquire", "write", "release",
                                             "acquire", "read", "release">>
      [] op = "list" -> <<"acquire", "read", "release">>

NoOp == [op |-> "none", plan |-> << >>, busy |-> "no"]

\* self._lock = threading.Lock(): nobody holds it, no thread is in a method
LockFree == [holder |-> "none", t |-> [x \in LockThreads |-> NoOp]]

\* a thread calls a method of the store
LkCall(x, op) ==
    /\ sl.t[x].op = "none"
    /\ sl' = [sl EXCEPT !.t[x] = [op |-> op, plan |-> OpPlan(op), busy |-> "no"]]
    /\ UNCHANGED notLock

\* with self._lock: the thread waits until the lock is free
LkAcquire(x) ==
    /\ sl.t[x].plan # << >>
    /\ Head(sl.t[x].plan) = "acquire"
    /\ sl.holder = "none"
    /\ sl' = [sl EXCEPT !.holder = x, !.t[x].plan = Tail(@)]
    /\ UNCHANGED notLock

\* a statement on the connection begins: a write (INSERT inside with
\* self._conn) or a read (SELECT)
LkStart(x) ==
    /\ sl.t[x].plan # << >>
    /\ Head(sl.t[x].plan) \in {"write", "read"}
    /\ sl.t[x].busy = "no"
    /\ sl' = [sl EXCEPT !.t[x].busy = Head(sl.t[x].plan)]
    /\ UNCHANGED notLock

\* the statement is done (a write: committed)
LkFinish(x) ==
    /\ sl.t[x].busy # "no"
    /\ sl' = [sl EXCEPT !.t[x] =
                 IF Len(sl.t[x].plan) = 1 THEN NoOp
                 ELSE [@ EXCEPT !.busy = "no", !.plan = Tail(@)]]
    /\ UNCHANGED notLock

\* the end of the with self._lock block
LkRelease(x) ==
    /\ sl.t[x].plan # << >>
    /\ Head(sl.t[x].plan) = "release"
    /\ sl' = [sl EXCEPT !.holder = "none",
                        !.t[x] = IF Len(sl.t[x].plan) = 1 THEN NoOp
                                 ELSE [@ EXCEPT !.plan = Tail(@)]]
    /\ UNCHANGED notLock

\* the store as constructed
StoreEmpty ==
    /\ loans = [id \in AllIds |-> NoLoan]
    /\ events = << >>
    /\ termsRows = {}
    /\ api = NoCall
    /\ sl = LockFree

----------------------------------------------------------------------------
(* One caller of the LoanStore methods, one call at a time: store.py       *)

\* the calls one caller makes
MaxCalls == 3

\* the loan identifiers the caller names
ApiIds == {"0x1", "0x2"}

\* payload.get("loanId") or payload.get("loan_id"): None when both keys are
\* missing or falsy
NoKey == "no-key"
PayloadIds == {NoKey, "0x1"}

\* the other keys of a create payload: none, or principal and collateral
NoFields == [k \in {} |-> 0]
CreatePayloads == {NoFields, [principal |-> 1000, collateralBTCb |-> 1]}

\* loan_id = str(payload.get("loanId") or payload.get("loan_id")), then the
\* generated identifier if that text is empty
CreateLoanId(given) ==
    LET loan_id == IF given = NoKey THEN NoneText ELSE given
    IN  IF loan_id = "" THEN GeneratedId ELSE loan_id

\* PRAGMA foreign_keys switched on at connection time
ForeignKeysOn_Enforced == TRUE

\* PRAGMA foreign_keys: __init__ does not switch it on, so the REFERENCES
\* clause of table events is not enforced
ForeignKeysOn == FALSE

\* the INSERT of record_event is refused
EventInsertFails(ls, loan_id) ==
    ForeignKeysOn /\ ls[loan_id].status = "absent"

\* _events_for: the events of one loan, in id order
History(es, loan_id) ==
    LET mine == SelectSeq(es, LAMBDA e : e.loan = loan_id)
    IN  [i \in 1..Len(mine) |-> mine[i].event]

\* the record of a call that begins: what the caller knew before it
Called(op, loan_id) ==
    [NoCall EXCEPT !.op = op, !.id = loan_id, !.before = loans[loan_id],
                   !.nev = Len(events), !.anon = api.anon, !.anonBefore = api.anon,
                   !.n = api.n + 1,
                   !.prev = [op |-> api.op, id |-> api.id, amount |-> api.amount,
                             before |-> api.before, loan |-> api.loan]]

\* LoanStore.create
ApiCreate(given, payload) ==
    LET loan_id == CreateLoanId(given) IN
    /\ api.n < MaxCalls
    /\ loans' = StoreCreate(loans, loan_id, payload)
    /\ events' = RecordEvent(events, loan_id, "loan-created")
    /\ api' = [Called("create", loan_id) EXCEPT
                  !.given = given, !.loan = loans'[loan_id],
                  !.anon = IF given = NoKey THEN api.anon \cup {loan_id} ELSE api.anon]
    /\ UNCHANGED <<termsRows, notApi>>

\* LoanStore.update(loan_id, status=...)
ApiUpdate(loan_id, status) ==
    /\ api.n < MaxCalls
    /\ loans' = StoreUpdate(loans, loan_id, [status |-> status])
    /\ api' = [Called("update", loan_id) EXCEPT !.loan = loans'[loan_id]]
    /\ UNCHANGED <<events, termsRows, notApi>>

\* LoanStore.mark_repaid
ApiMarkRepaid(loan_id, amount) ==
    /\ api.n < MaxCalls
    /\ loans' = MarkRepaid(loans, loan_id, amount)
    /\ events' = RecordEvent(events, loan_id, "repayment-recorded")
    /\ api' = [Called("mark_repaid", loan_id) EXCEPT
                  !.amount = amount, !.loan = loans'[loan_id]]
    /\ UNCHANGED <<termsRows, notApi>>

\* LoanStore.mark_default
ApiMarkDefault(loan_id, reason) ==
    /\ api.n < MaxCalls
    /\ loans' = MarkDefault(loans, loan_id, reason)
    /\ events' = RecordEvent(events, loan_id, "loan-defaulted")
    /\ api' = [Called("mark_default", loan_id) EXCEPT !.loan = loans'[loan_id]]
    /\ UNCHANGED <<termsRows, notApi>>

\* LoanStore.update_health: {} and no event for an unknown loan
ApiUpdateHealth(loan_id, price_eur) ==
    /\ api.n < MaxCalls
    /\ loans' = UpdateHealth(loans, loan_id, price_eur)
    /\ events' = IF loans[loan_id].status = "absent" THEN events
                 ELSE RecordEvent(events, loan_id, "health-check")
    /\ api' = [Called("update_health", loan_id) EXCEPT !.loan = loans'[loan_id]]
    /\ UNCHANGED <<termsRows, notApi>>

\* LoanStore.record_event: the INSERT, and the event returned
ApiRecordEvent(loan_id, event) ==
    /\ api.n < MaxCalls
    /\ IF EventInsertFails(loans, loan_id)
       THEN /\ events' = events
            /\ api' = [Called("record_event", loan_id) EXCEPT !.ok = FALSE]
       ELSE /\ events' = RecordEvent(events, loan_id, event)
            /\ api' = [Called("record_event", loan_id) EXCEPT !.event = event]
    /\ UNCHANGED <<loans, termsRows, notApi>>

\* LoanStore.get: None for an unknown loan, else the row with its history
ApiGet(loan_id) ==
    /\ api.n < MaxCalls
    /\ api' = IF loans[loan_id].status = "absent"
              THEN Called("get", loan_id)
              ELSE [Called("get", loan_id) EXCEPT
                      !.found = TRUE, !.loan = loans[loan_id],
                      !.hist = History(events, loan_id)]
    /\ UNCHANGED <<storeVars, notApi>>

\* LoanStore.history
ApiHistory(loan_id) ==
    /\ api.n < MaxCalls
    /\ api' = [Called("history", loan_id) EXCEPT !.hist = History(events, loan_id)]
    /\ UNCHANGED <<storeVars, notApi>>

----------------------------------------------------------------------------
(* HTTP routes: server.py Handler                                          *)

\* how many HTTP requests, chain logs and monitor cycles one run starts
MaxRequests == 2
MaxDeliveries == 1
MaxCycles == 1
\* how many of the requests may be create-loan or redeem requests
MaxPayoutRequests == 1

Statuses == { "active", "repaid", "defaulted" }
Amounts == { 1, 2 }

\* the create-loan context kept between the stages of _handle_create_loan
NoCreate ==
    [borrower |-> Empty, terms |-> NoTerms, loanId |-> "none", iban |-> Empty,
     disburseVia |-> "none", principal |-> 0, collateralBTCb |-> 0,
     ltv |-> 0, duration |-> 0,
     pending |-> << >>, validated |-> NoTermsResult]

\* ret is the record the handler will return
IdleHttp ==
    [pc |-> "idle", evq |-> << >>, loan |-> "none", amount |-> 0,
     status |-> 0, c |-> NoCreate, ret |-> NoLoan]

\* the last response: for a created loan its identifier, the record
\* returned, the validated terms and the pending events of the request
NoResp ==
    [status |-> 0, reason |-> "none", loanId |-> "none", loan |-> NoLoan,
     validated |-> NoTermsResult, pending |-> << >>]

Respond(status, reason) ==
    /\ resp' = [NoResp EXCEPT !.status = status, !.reason = reason]
    /\ http' = IdleHttp

\* _send_json(status, result) with the record the handler returned
RespondRecord ==
    /\ resp' = [status |-> http.status, reason |-> "ok", loanId |-> http.loan,
                loan |-> http.ret, validated |-> http.c.validated,
                pending |-> http.c.pending]
    /\ http' = IdleHttp

\* a request is read off the socket
Accept ==
    /\ http.pc = "idle"
    /\ used.req < MaxRequests
    /\ used' = [used EXCEPT !.req = used.req + 1]

\* the record_event calls that follow a store call of the HTTP thread, one
\* at a time; after the last one the response is sent
HttpEvent ==
    /\ http.evq # << >>
    /\ events' = RecordEvent(events, http.loan, Head(http.evq))
    /\ IF Len(http.evq) = 1 /\ http.pc = "done"
       THEN RespondRecord
       ELSE /\ http' = [http EXCEPT !.evq = Tail(http.evq)]
            /\ resp' = resp
    /\ UNCHANGED <<loans, termsRows, railVars, hnd, mon, qw, used, coord, notServer>>

\* do_PATCH /loans/{id}
Patch(loan_id, status) ==
    /\ Accept
    /\ IF status \notin Statuses
       THEN /\ Respond(400, "invalid status")
            /\ loans' = loans
       ELSE /\ loans' = StoreUpdate(loans, loan_id, [status |-> status])
            /\ http' = [IdleHttp EXCEPT !.pc = "done", !.loan = loan_id,
                                        !.evq = <<"status-updated">>, !.status = 200]
            /\ resp' = resp
    /\ UNCHANGED <<events, termsRows, railVars, hnd, mon, qw, coord, notServer>>

\* do_POST /loans/default
PostDefault(loan_id) ==
    /\ Accept
    /\ loans' = MarkDefault(loans, loan_id, "manual-default")
    /\ http' = [IdleHttp EXCEPT !.pc = "done", !.loan = loan_id,
                                !.evq = <<"loan-defaulted">>, !.status = 200]
    /\ UNCHANGED <<events, termsRows, railVars, resp, hnd, mon, qw, coord, notServer>>

\* do_POST /repay up to mark_repaid: with via = "iban" the loan and the
\* borrower's binding are read first
PostRepay(loan_id, amount, via) ==
    LET loan_record == loans[loan_id]
        outcome == RequireOutcome(links, loan_record.borrower, Empty, Empty)
        binding == GetLink(links, loan_record.borrower)
    IN  /\ Accept
        /\ IF via = "iban" /\ loan_record.status = "absent"
           THEN Respond(404, "loan not found for repayment") /\ checked' = checked
           ELSE IF via = "iban" /\ loan_record.borrower = Empty
           THEN Respond(428, "loan missing borrower information") /\ checked' = checked
           ELSE IF via = "iban" /\ outcome # "ok"
           THEN Respond(428, outcome) /\ checked' = checked
           ELSE /\ http' = [IdleHttp EXCEPT !.pc = "repay", !.loan = loan_id,
                                            !.amount = amount, !.status = 200]
                /\ resp' = resp
                /\ checked' = IF via = "iban"
                              THEN checked \cup {[wallet |-> r.wallet, iban |-> r.iban] :
                                                   r \in binding}
                              ELSE checked
        /\ UNCHANGED <<storeVars, redeems, queue, hnd, mon, qw, coord, notServer>>

\* do_POST /repay: STORE.mark_repaid, the locked section
RepayMark ==
    /\ http.pc = "repay"
    /\ loans' = MarkRepaid(loans, http.loan, http.amount)
    /\ http' = [http EXCEPT !.pc = "done",
                            !.evq = <<"repayment-recorded", "repayment-submitted">>]
    /\ UNCHANGED <<events, termsRows, railVars, resp, hnd, mon, qw, used, coord, notServer>>

\* MONERIUM.redeem(iban, ...): the rail executes the money-out order, or the
\* request raises; no order is executed for a blank IBAN
RailExecutes(iban, rail_ok) == rail_ok /\ normalize_iban(iban) # Empty

\* do_POST /monerium/redeem: the binding check, then the call to the rail
\* (which the rail executes or which raises)
PostRedeem(wallet, iban, rail_ok) ==
    LET outcome == RequireOutcome(links, wallet, iban, Empty)
        binding == GetLink(links, wallet)
    IN  /\ Accept
        /\ IF wallet = Empty
           THEN /\ Respond(428, "wallet is required for Monerium redeem")
                /\ UNCHANGED <<checked, redeems>>
           ELSE IF outcome # "ok"
           THEN /\ Respond(428, outcome)
                /\ UNCHANGED <<checked, redeems>>
           ELSE /\ checked' = checked \cup {[wallet |-> r.wallet, iban |-> r.iban] :
                                              r \in binding}
                /\ IF RailExecutes(iban, rail_ok)
                   THEN /\ redeems' = redeems \cup {[iban |-> iban, by |-> "route"]}
                        /\ Respond(200, "ok")
                   ELSE /\ redeems' = redeems
                        /\ Respond(502, "Monerium request failed")
        /\ UNCHANGED <<storeVars, queue, hnd, mon, qw, coord, notServer>>

----------------------------------------------------------------------------
(* Create-loan pipeline: server.py Handler._handle_create_loan             *)

\* principal, collateralBTCb, ltv and duration of a request
CreateNums ==
    { [principal |-> 1000, collateralBTCb |-> 1, ltv |-> 50, duration |-> 30],
      [principal |-> 0, collateralBTCb |-> 1, ltv |-> 50, duration |-> 30],
      [principal |-> 1000, collateralBTCb |-> 0, ltv |-> 50, duration |-> 30],
      [principal |-> 1000, collateralBTCb |-> 1, ltv |-> 0, duration |-> 30],
      [principal |-> 1000, collateralBTCb |-> 1, ltv |-> 71, duration |-> 30],
      [principal |-> 1000, collateralBTCb |-> 1, ltv |-> 50, duration |-> 0] }

\* amounts below zero
NegativeNums ==
    { [principal |-> -1000, collateralBTCb |-> 1, ltv |-> 50, duration |-> 30],
      [principal |-> 1000, collateralBTCb |-> -1, ltv |-> 50, duration |-> 30],
      [principal |-> 1000, collateralBTCb |-> 1, ltv |-> -50, duration |-> 30],
      [principal |-> 1000, collateralBTCb |-> 1, ltv |-> 50, duration |-> -30] }

\* the signature a wallet makes over the current terms
GoodSig(w) == TermsSigBy(w, w, TERMS_HASH, 2)

\* termsAcceptance objects: absent, complete, without signature, stale hash
CreateTerms ==
    { NoTerms,
      [keys |-> TRUE, signature |-> GoodSig(<<"A">>), wallet |-> <<"A">>,
       termsHash |-> TERMS_HASH, termsVersion |-> Empty, timestamp |-> TsInt(2)],
      [keys |-> TRUE, signature |-> TermsSigNone, wallet |-> Empty,
       termsHash |-> TERMS_HASH, termsVersion |-> Empty, timestamp |-> TsInt(2)],
      [keys |-> TRUE, signature |-> GoodSig(<<"A">>), wallet |-> <<"A">>,
       termsHash |-> <<"0", "x", "b", "b">>, termsVersion |-> Empty,
       timestamp |-> TsInt(2)],
      [keys |-> TRUE, signature |-> GoodSig(<<"B">>), wallet |-> <<"A">>,
       termsHash |-> TERMS_HASH, termsVersion |-> Empty, timestamp |-> TsInt(2)] }

\* requests: every combination of the fields behind the input checks for
\* a well-formed request, and each ill-formed variant of it with and
\* without terms
CreateRequests ==
    [nums : { n \in CreateNums : n.principal = 1000 /\ n.collateralBTCb = 1
                                   /\ n.ltv = 50 /\ n.duration = 30 },
     borrower : { <<"A">> },
     terms : CreateTerms,
     termsSignature : { TermsSigNone, GoodSig(<<"A">>) },
     disburseVia : { "none", "monerium" },
     iban : { Empty, <<"b", " ", "1">>, <<"A", "1">> },
     loanId : { "none", "0x1" }]
    \cup
    [nums : CreateNums,
     borrower : { Empty, <<"A">> },
     terms : { t \in CreateTerms :
                 t = NoTerms \/ (t.signature = GoodSig(<<"A">>) /\ t.termsHash = TERMS_HASH) },
     termsSignature : { TermsSigNone },
     disburseVia : { "none" },
     iban : { Empty },
     loanId : { "0x1" }]

\* the ValueError of the first checks of _handle_create_loan, or "ok"
CreateInputError(nums) ==
    IF nums.principal = 0 \/ nums.collateralBTCb = 0
    THEN "principal and collateralBTCb are required"
    ELSE IF nums.ltv <= 0 \/ nums.ltv > 70
    THEN "ltv must be between 0 and 70"
    ELSE IF nums.duration <= 0
    THEN "duration must be greater than zero"
    ELSE "ok"

\* terms_payload: payload["termsAcceptance"], with payload["termsSignature"]
\* as its signature when it has none
TermsPayloadOf(req) ==
    IF req.terms.signature.kind = "none" /\ req.termsSignature.kind # "none"
    THEN [req.terms EXCEPT !.keys = TRUE, !.signature = req.termsSignature]
    ELSE req.terms

\* the terms check skipped
CreateTermsCheck_Skipped(lib, req, borrower_wallet) ==
    [ValidateTermsAcceptance(lib, TermsPayloadOf(req), borrower_wallet)
        EXCEPT !.ok = TRUE]

\* validated_terms = _validate_terms_acceptance(terms_payload, borrower_wallet)
CreateTermsCheck(lib, req, borrower_wallet) ==
    ValidateTermsAcceptance(lib, TermsPayloadOf(req), borrower_wallet)

\* loan_metadata without the terms signature
TermsMetadata_NoSignature(validated_terms) ==
    [termsAcceptance |-> [wallet |-> validated_terms.wallet,
                          termsHash |-> validated_terms.termsHash,
                          timestamp |-> validated_terms.timestamp,
                          termsVersion |-> validated_terms.termsVersion],
     termsAcceptedAt |-> validated_terms.timestamp,
     termsAcceptedHash |-> validated_terms.termsHash,
     termsSignature |-> TermsSigNone]

\* the terms keys of loan_metadata: sanitized_terms and the three scalars
TermsMetadata(validated_terms) ==
    [termsAcceptance |-> [wallet |-> validated_terms.wallet,
                          termsHash |-> validated_terms.termsHash,
                          timestamp |-> validated_terms.timestamp,
                          termsVersion |-> validated_terms.termsVersion],
     termsAcceptedAt |-> validated_terms.timestamp,
     termsAcceptedHash |-> validated_terms.termsHash,
     termsSignature |-> validated_terms.signature]

\* the pending events recorded before loan-validated
AfterCreate_PendingFirst(pending_events) == pending_events \o <<"loan-validated">>

\* the record_event calls that follow STORE.create: loan-validated, then
\* the pending events in the order they were appended
AfterCreate(pending_events) == <<"loan-validated">> \o pending_events

\* whether the request asks for a fiat payout
WantsPayout(c) == c.disburseVia = "monerium" /\ c.iban # Empty

\* do_POST /loans, first stage: input checks, borrower wallet, terms
\* validation, record_terms_acceptance
PostLoans(req) ==
    LET borrower_wallet == CoalesceAddress(<<req.borrower>>)
        validated_terms == CreateTermsCheck(accountLib, req, borrower_wallet)
    IN  /\ Accept
        /\ IF CreateInputError(req.nums) # "ok"
           THEN Respond(400, CreateInputError(req.nums)) /\ termsRows' = termsRows
           ELSE IF borrower_wallet = Empty
           THEN Respond(428, "borrower wallet is required") /\ termsRows' = termsRows
           ELSE IF ~validated_terms.ok
           THEN Respond(validated_terms.status, validated_terms.reason)
                /\ termsRows' = termsRows
           ELSE /\ termsRows' = RecordTermsAcceptance(termsRows, validated_terms.wallet,
                                    validated_terms.termsHash, validated_terms.timestamp)
                /\ http' = [IdleHttp EXCEPT
                              !.pc = "binding", !.status = 201,
                              !.c = [borrower |-> borrower_wallet,
                                     terms |-> TermsPayloadOf(req),
                                     loanId |-> req.loanId,
                                     iban |-> req.iban,
                                     disburseVia |-> req.disburseVia,
                                     principal |-> req.nums.principal,
                                     collateralBTCb |-> req.nums.collateralBTCb,
                                     ltv |-> req.nums.ltv,
                                     duration |-> req.nums.duration,
                                     pending |-> <<"terms-accepted">>,
                                     validated |-> validated_terms]]
                /\ resp' = resp
        /\ UNCHANGED <<loans, events, railVars, hnd, mon, qw, coord, notServer>>

\* second stage: STORE.require_monerium_link for a fiat payout
CreateBinding ==
    LET c == http.c
        outcome == RequireOutcome(links, c.borrower, c.iban, Empty)
        binding == GetLink(links, c.borrower)
    IN  /\ http.pc = "binding"
        /\ IF ~WantsPayout(c)
           THEN http' = [http EXCEPT !.pc = "deposit"] /\ UNCHANGED <<resp, checked>>
           ELSE IF outcome # "ok"
           THEN Respond(428, outcome) /\ checked' = checked
           ELSE /\ http' = [http EXCEPT !.pc = "deposit"]
                /\ resp' = resp
                /\ checked' = checked \cup {[wallet |-> r.wallet, iban |-> r.iban] :
                                              r \in binding}
        /\ UNCHANGED <<storeVars, redeems, queue, hnd, mon, qw, used, coord, notServer>>

\* the deposit stage with the loan row written before the chain call
CreateDeposit_WritesFirst(outcome) ==
    LET c == http.c
        loan_id == IF coord.ava /\ outcome \in LoanIds THEN outcome ELSE c.loanId
        settled == IF loan_id = "none" THEN GeneratedId ELSE loan_id
    IN  /\ http.pc = "deposit"
        /\ loans' = StoreCreate(loans, settled,
                        [borrower |-> c.borrower, principal |-> c.principal,
                         collateralBTCb |-> c.collateralBTCb])
        /\ IF coord.ava /\ outcome = "raises"
           THEN Respond(502, "avalanche transaction failed")
           ELSE IF coord.ava /\ outcome = "no-event"
           THEN Respond(502, "Collateral deposit confirmation missing")
           ELSE /\ http' = [http EXCEPT !.pc = "fund", !.c = [c EXCEPT !.loanId = settled]]
                /\ resp' = resp
        /\ UNCHANGED <<events, termsRows, railVars, hnd, mon, qw, used, coord, notServer>>

\* third stage: depositCollateral on the Avalanche coordinator, when it is
\* available; the call raises, or its receipt has no CollateralDeposited
\* event, or the event names the loan.  Then the identifier is settled.
CreateDeposit(outcome) ==
    LET c == http.c
        loan_id == IF coord.ava THEN outcome ELSE c.loanId
        settled == IF loan_id = "none" THEN GeneratedId ELSE loan_id
    IN  /\ http.pc = "deposit"
        /\ IF coord.ava /\ outcome = "raises"
           THEN Respond(502, "avalanche transaction failed")
           ELSE IF coord.ava /\ outcome = "no-event"
           THEN Respond(502, "Collateral deposit confirmation missing")
           ELSE /\ http' = [http EXCEPT
                              !.pc = "fund",
                              !.c = [c EXCEPT
                                       !.loanId = settled,
                                       !.pending = IF coord.ava
                                                   THEN Append(c.pending,
                                                          "collateral-deposit-confirmed")
                                                   ELSE c.pending]]
                /\ resp' = resp
        /\ UNCHANGED <<storeVars, railVars, hnd, mon, qw, used, coord, notServer>>

\* fourth stage: fundLoan on the Ethereum coordinator, when it is available;
\* the call raises, or succeeds with or without a LoanFunded event
CreateFund(outcome) ==
    LET c == http.c IN
    /\ http.pc = "fund"
    /\ IF ~coord.eth
       THEN http' = [http EXCEPT !.pc = "persist"] /\ resp' = resp
       ELSE IF c.loanId \notin LoanIds
       THEN Respond(412, "Unable to fund loan without on-chain identifier")
       ELSE IF outcome = "raises"
       THEN Respond(502, "ethereum transaction failed")
       ELSE /\ http' = [http EXCEPT
                          !.pc = "persist",
                          !.c = [c EXCEPT
                                   !.pending = IF outcome = "funded"
                                               THEN Append(c.pending,
                                                      "loan-funded-confirmed")
                                               ELSE c.pending]]
            /\ resp' = resp
    /\ UNCHANGED <<storeVars, railVars, hnd, mon, qw, used, coord, notServer>>

\* fifth stage: STORE.create(loan_metadata), which writes the row and the
\* loan-created event under the lock; loan-validated and the pending events
\* follow
CreatePersist ==
    LET c == http.c
        terms == TermsMetadata(c.validated)
        loan_metadata ==
            [borrower |-> c.borrower, iban |-> c.iban,
             disburseVia |-> c.disburseVia, principal |-> c.principal,
             collateralBTCb |-> c.collateralBTCb,
             termsAcceptance |-> terms.termsAcceptance,
             termsAcceptedAt |-> terms.termsAcceptedAt,
             termsAcceptedHash |-> terms.termsAcceptedHash,
             termsSignature |-> terms.termsSignature]
    IN
    /\ http.pc = "persist"
    /\ loans' = StoreCreate(loans, c.loanId, loan_metadata)
    /\ events' = RecordEvent(events, c.loanId, "loan-created")
    /\ http' = [http EXCEPT !.pc = IF WantsPayout(c) THEN "payout" ELSE "done",
                            !.loan = c.loanId,
                            !.ret = CreateRecord(loan_metadata),
                            !.evq = AfterCreate(c.pending)]
    /\ UNCHANGED <<termsRows, railVars, resp, hnd, mon, qw, used, coord, notServer>>

\* sixth stage: MONERIUM.redeem(payload["iban"], principal, ...)
CreatePayout(rail_ok) ==
    LET c == http.c IN
    /\ http.pc = "payout"
    /\ http.evq = << >>
    /\ IF RailExecutes(c.iban, rail_ok)
       THEN /\ redeems' = redeems \cup {[iban |-> c.iban, by |-> "create"]}
            /\ http' = [http EXCEPT !.pc = "payout-update"]
            /\ resp' = resp
       ELSE /\ redeems' = redeems
            /\ Respond(502, "Monerium request failed")
    /\ UNCHANGED <<storeVars, checked, queue, hnd, mon, qw, used, coord, notServer>>

\* last stage: STORE.update(loan_id, moneriumPayout=...), then payout-executed
CreatePayoutUpdate ==
    /\ http.pc = "payout-update"
    /\ loans' = StoreUpdate(loans, http.loan, [moneriumPayout |-> TRUE])
    /\ http' = [http EXCEPT !.pc = "done", !.evq = <<"payout-executed">>,
                            !.ret = StoreUpdate(loans, http.loan,
                                                [moneriumPayout |-> TRUE])[http.loan]]
    /\ UNCHANGED <<events, termsRows, railVars, resp, hnd, mon, qw, used, coord, notServer>>

----------------------------------------------------------------------------
(* Chain event handlers: server.py _handle_*                               *)

HandlerNames == { "LoanRegistered", "RepaymentRecorded", "LiquidationTriggered" }

IdleHandler ==
    [pc |-> "idle", evq |-> << >>, loan |-> "none", amount |-> 0,
     viaMonerium |-> FALSE, existing |-> FALSE, principal |-> 0,
     collateralBTCb |-> 0, user |-> Empty]

\* the event worker of an event type passes a log to its handler
Deliver(h) ==
    /\ hnd[h].pc = "idle"
    /\ used.logs < MaxDeliveries
    /\ used' = [used EXCEPT !.logs = used.logs + 1]

\* the record_event that follows a store call of a handler; after the last
\* one of the handler it returns
HandlerEvent(h) ==
    LET c == hnd[h] IN
    /\ c.evq # << >>
    /\ events' = RecordEvent(events, c.loan, Head(c.evq))
    /\ hnd' = [hnd EXCEPT ![h] = IF Len(c.evq) = 1 /\ c.pc = "done"
                                 THEN IdleHandler
                                 ELSE [c EXCEPT !.evq = Tail(c.evq)]]
    /\ UNCHANGED <<loans, termsRows, railVars, http, resp, mon, qw, used, coord, notServer>>

\* _handle_loan_registered up to existing = STORE.get(loan_id)
LoanRegistered(loan_id, principal, collateral, user) ==
    /\ coord.eth
    /\ Deliver("LoanRegistered")
    /\ hnd' = [hnd EXCEPT !["LoanRegistered"] =
                 [IdleHandler EXCEPT !.pc = "write", !.loan = loan_id,
                                     !.existing = loans[loan_id].status # "absent",
                                     !.principal = principal,
                                     !.collateralBTCb = collateral,
                                     !.user = user]]
    /\ UNCHANGED <<storeVars, railVars, http, resp, mon, qw, coord, notServer>>

\* _handle_loan_registered: STORE.update(loan_id, **payload) when the loan
\* existed at the read, STORE.create(payload) otherwise; status is "active"
\* in both
RegisteredWrite ==
    LET c == hnd["LoanRegistered"]
        payload == [principal |-> c.principal, collateralBTCb |-> c.collateralBTCb,
                    borrower |-> c.user, status |-> "active"]
    IN  /\ c.pc = "write"
        /\ IF c.existing
           THEN /\ loans' = StoreUpdate(loans, c.loan, payload)
                /\ events' = events
           ELSE /\ loans' = StoreCreate(loans, c.loan, payload)
                /\ events' = RecordEvent(events, c.loan, "loan-created")
        /\ hnd' = [hnd EXCEPT !["LoanRegistered"] =
                     [c EXCEPT !.pc = "done", !.evq = <<"loan-registered-onchain">>]]
        /\ UNCHANGED <<termsRows, railVars, http, resp, mon, qw, used, coord, notServer>>

\* _handle_repayment_recorded up to its first record_event
RepaymentRecorded(loan_id, amount, via_monerium) ==
    /\ coord.eth
    /\ Deliver("RepaymentRecorded")
    /\ events' = RecordEvent(events, loan_id, "repayment-recorded-onchain")
    /\ hnd' = [hnd EXCEPT !["RepaymentRecorded"] =
                 [IdleHandler EXCEPT !.pc = "mark", !.loan = loan_id,
                                     !.amount = amount,
                                     !.viaMonerium = via_monerium]]
    /\ UNCHANGED <<loans, termsRows, railVars, http, resp, mon, qw, coord, notServer>>

\* _handle_repayment_recorded: STORE.mark_repaid, the locked section
RepaymentMark ==
    LET c == hnd["RepaymentRecorded"] IN
    /\ c.pc = "mark"
    /\ loans' = MarkRepaid(loans, c.loan, c.amount)
    /\ hnd' = [hnd EXCEPT !["RepaymentRecorded"] =
                 [c EXCEPT !.pc = "read", !.evq = <<"repayment-recorded">>]]
    /\ UNCHANGED <<events, termsRows, railVars, http, resp, mon, qw, used, coord, notServer>>

\* the IBAN _handle_repayment_recorded redeems to: the loan's own when the
\* event says viaMonerium or the loan was disbursed through the rail
RepaymentIban(loan, via_monerium) ==
    LET first == IF via_monerium THEN loan.iban ELSE Empty IN
    IF first = Empty /\ loan.disburseVia = "monerium" THEN loan.iban ELSE first

\* _handle_repayment_recorded: loan = STORE.get(loan_id), then the
\* redemption task is submitted to MONERIUM_QUEUE
RepaymentSubmit ==
    LET c == hnd["RepaymentRecorded"]
        loan == loans[c.loan]
        iban == RepaymentIban(loan, c.viaMonerium)
    IN  /\ c.pc = "read"
        /\ c.evq = << >>
        /\ queue' = IF iban # Empty
                    THEN Append(queue, [loan |-> c.loan, iban |-> iban, attempts |-> 0])
                    ELSE queue
        /\ hnd' = [hnd EXCEPT !["RepaymentRecorded"] = IdleHandler]
        /\ UNCHANGED <<storeVars, redeems, checked, http, resp, mon, qw, used, coord, notServer>>

\* _handle_liquidation_triggered up to its first record_event
LiquidationTriggered(loan_id) ==
    /\ coord.ava
    /\ Deliver("LiquidationTriggered")
    /\ events' = RecordEvent(events, loan_id, "liquidation-triggered")
    /\ hnd' = [hnd EXCEPT !["LiquidationTriggered"] =
                 [IdleHandler EXCEPT !.pc = "mark", !.loan = loan_id]]
    /\ UNCHANGED <<loans, termsRows, railVars, http, resp, mon, qw, coord, notServer>>

\* _handle_liquidation_triggered: STORE.mark_default, the locked section
LiquidationMark ==
    LET c == hnd["LiquidationTriggered"] IN
    /\ c.pc = "mark"
    /\ loans' = MarkDefault(loans, c.loan, "liquidation")
    /\ hnd' = [hnd EXCEPT !["LiquidationTriggered"] =
                 [c EXCEPT !.pc = "done", !.evq = <<"loan-defaulted">>]]
    /\ UNCHANGED <<events, termsRows, railVars, http, resp, mon, qw, used, coord, notServer>>

----------------------------------------------------------------------------
(* Risk monitor: server.py RiskMonitor.run                                 *)

\* warn_ltv = 0.65 and liquidate_ltv = 0.7, in hundredths
WarnLtvPct == 65
LiquidateLtvPct == 70

\* BTC/EUR prices the oracle may return
Prices == { 1400, 1430, 2000 }

\* ltv >= threshold, with ltv = principal / (collateral * price)
LtvAtLeast(principal, collateral, price, pct) ==
    principal * 100 >= pct * (collateral * price)

\* the loan identifiers in the order of _list_ids (ORDER BY loan_id)
ListIds(ls) ==
    SelectSeq(<<"0x1", "0x2", NoneText, GeneratedId>>,
              LAMBDA id : ls[id].status # "absent")

\* nev is history: the length of the audit log when the cycle began; err
\* and odd are history: whether the last cycle ended in an except clause,
\* and the parity of the count of such cycles in a row
IdleMonitor ==
    [pc |-> "idle", evq |-> << >>, price |-> 0, todo |-> << >>, loan |-> "none",
     snap |-> [id \in AllIds |-> NoLoan], err |-> FALSE, odd |-> FALSE,
     stop |-> FALSE, nev |-> 0]

\* the monitor whose wait clears the stop event
CycleOver_ClearsStop(m) == IdleMonitor

\* the monitor at self._stop_event.wait(self.interval): the cycle is over,
\* the stop event is as it was
CycleOver(m) == [IdleMonitor EXCEPT !.stop = m.stop]

\* an exception of the cycle that ends the thread
CycleFailed_Exits(m) == [CycleOver(m) EXCEPT !.pc = "exited"]

\* except APIError, except Exception around the cycle: the error is
\* logged and the monitor waits for the next cycle
CycleFailed(m) ==
    [CycleOver(m) EXCEPT !.err = TRUE, !.odd = ~(m.err /\ m.odd)]

\* RiskMonitor.stop
MonitorStop ==
    /\ ~mon.stop
    /\ mon.pc # "exited"
    /\ mon' = [mon EXCEPT !.stop = TRUE]
    /\ UNCHANGED <<storeVars, railVars, http, resp, hnd, qw, used, coord, notServer>>

\* while not self._stop_event.is_set(): false
MonitorExit ==
    /\ mon.pc = "idle"
    /\ mon.stop
    /\ mon' = [mon EXCEPT !.pc = "exited"]
    /\ UNCHANGED <<storeVars, railVars, http, resp, hnd, qw, used, coord, notServer>>

\* the head of a cycle: price = self.oracle.current_price() raised. The
\* cycle writes nothing, so it is not counted against MaxCycles
MonitorPriceFails ==
    /\ mon.pc = "idle"
    /\ ~mon.stop
    /\ mon' = CycleFailed(mon)
    /\ UNCHANGED <<storeVars, railVars, http, resp, hnd, qw, used, coord, notServer>>

\* the head of a cycle: the price, then loans = self.store.list()
MonitorStart(price) ==
    /\ mon.pc = "idle"
    /\ ~mon.stop
    /\ used.cycles < MaxCycles
    /\ used' = [used EXCEPT !.cycles = used.cycles + 1]
    /\ mon' = [IdleMonitor EXCEPT !.pc = "loop", !.price = price,
                                  !.snap = loans, !.todo = ListIds(loans),
                                  !.nev = Len(events)]
    /\ UNCHANGED <<storeVars, railVars, http, resp, hnd, qw, coord, notServer>>

\* the test of the status left out
Evaluated_AnyStatus(loan, price) ==
    /\ loan.status # "absent"
    /\ loan.collateralBTCb > 0
    /\ loan.collateralBTCb * price > 0

\* whether the cycle evaluates a loan of its list
Evaluated(loan, price) ==
    /\ loan.status = "active"
    /\ loan.collateralBTCb > 0
    /\ loan.collateralBTCb * price > 0

\* the next loan of the list: skipped, or update_health (the locked section)
MonitorNext ==
    LET loan_id == Head(mon.todo)
        loan == mon.snap[loan_id]
    IN  /\ mon.pc = "loop"
        /\ mon.evq = << >>
        /\ mon.todo # << >>
        /\ IF Evaluated(loan, mon.price)
           THEN /\ loans' = UpdateHealth(loans, loan_id, mon.price)
                /\ mon' = [mon EXCEPT !.pc = "decide", !.loan = loan_id,
                                      !.todo = Tail(mon.todo),
                                      !.evq = IF loans[loan_id].status # "absent"
                                              THEN <<"health-check">> ELSE << >>]
           ELSE /\ loans' = loans
                /\ mon' = [mon EXCEPT !.todo = Tail(mon.todo)]
        /\ UNCHANGED <<events, termsRows, railVars, http, resp, hnd, qw, used, coord, notServer>>

\* the two comparisons in the other order
Verdict_WarnFirst(principal, collateral, price) ==
    IF LtvAtLeast(principal, collateral, price, WarnLtvPct) THEN "warn"
    ELSE IF LtvAtLeast(principal, collateral, price, LiquidateLtvPct) THEN "default"
    ELSE "none"

\* if ltv >= self.liquidate_ltv: ... elif ltv >= self.warn_ltv: ...
Verdict(principal, collateral, price) ==
    IF LtvAtLeast(principal, collateral, price, LiquidateLtvPct) THEN "default"
    ELSE IF LtvAtLeast(principal, collateral, price, WarnLtvPct) THEN "warn"
    ELSE "none"

\* a store call made for one loan of the list raises (sqlite3 error): the
\* exception leaves the for loop and is caught by the except clauses around
\* it, so the cycle ends here
MonitorLoanFails ==
    /\ mon.pc = "loop"
    /\ mon.evq = << >>
    /\ mon.todo # << >>
    /\ Evaluated(mon.snap[Head(mon.todo)], mon.price)
    /\ mon' = CycleFailed(mon)
    /\ UNCHANGED <<storeVars, railVars, http, resp, hnd, qw, used, coord, notServer>>

\* after update_health: mark_default (the locked section) at or above the
\* liquidation threshold, an ltv-warning event at or above the warning
\* threshold, nothing below
MonitorDecide ==
    LET loan == mon.snap[mon.loan]
        verdict == Verdict(loan.principal, loan.collateralBTCb, mon.price)
    IN
    /\ mon.pc = "decide"
    /\ mon.evq = << >>
    /\ IF verdict = "default"
       THEN /\ loans' = MarkDefault(loans, mon.loan, "ltv-threshold")
            /\ events' = events
            /\ mon' = [mon EXCEPT !.pc = "loop", !.evq = <<"loan-defaulted">>]
       ELSE IF verdict = "warn"
       THEN /\ loans' = loans
            /\ events' = RecordEvent(events, mon.loan, "ltv-warning")
            /\ mon' = [mon EXCEPT !.pc = "loop"]
       ELSE /\ UNCHANGED <<loans, events>>
            /\ mon' = [mon EXCEPT !.pc = "loop"]
    /\ UNCHANGED <<termsRows, railVars, http, resp, hnd, qw, used, coord, notServer>>

\* the record_event that follows a store call of the monitor
MonitorEvent ==
    /\ mon.evq # << >>
    /\ events' = RecordEvent(events, mon.loan, Head(mon.evq))
    /\ mon' = [mon EXCEPT !.evq = Tail(mon.evq)]
    /\ UNCHANGED <<loans, termsRows, railVars, http, resp, hnd, qw, used, coord, notServer>>

\* the list is exhausted: the cycle ends
MonitorSleep ==
    /\ mon.pc = "loop"
    /\ mon.evq = << >>
    /\ mon.todo = << >>
    /\ mon' = CycleOver(mon)
    /\ UNCHANGED <<storeVars, railVars, http, resp, hnd, qw, used, coord, notServer>>

----------------------------------------------------------------------------
(* Redemption queue: server.py TaskQueue, _execute_monerium_redeem         *)

\* TaskQueue(max_retries=5)
max_retries == 5

\* TaskQueue(backoff=5.0), in seconds
backoff == 5

IdleWorker == [pc |-> "idle", evq |-> << >>, item |-> [loan |-> "none", iban |-> Empty, attempts |-> 0]]

\* item = self._queue.get()
QueueTake ==
    /\ qw.pc = "idle"
    /\ queue # << >>
    /\ qw' = [IdleWorker EXCEPT !.pc = "run", !.item = Head(queue)]
    /\ queue' = Tail(queue)
    /\ UNCHANGED <<storeVars, redeems, checked, http, resp, hnd, mon, used, coord, notServer>>

\* the callback: MONERIUM.redeem(iban, amount, reference).  When it raises
\* the item is put back while attempts <= max_retries.
Redeem(rail_ok) ==
    LET item == qw.item
        failed == [item EXCEPT !.attempts = item.attempts + 1]
    IN  /\ qw.pc = "run"
        /\ IF RailExecutes(item.iban, rail_ok)
           THEN /\ redeems' = redeems \cup {[iban |-> item.iban, by |-> "queue"]}
                /\ qw' = [qw EXCEPT !.pc = "update"]
                /\ queue' = queue
           ELSE /\ redeems' = redeems
                /\ qw' = IdleWorker
                /\ queue' = IF failed.attempts <= max_retries
                            THEN Append(queue, failed) ELSE queue
        /\ UNCHANGED <<storeVars, checked, http, resp, hnd, mon, used, coord, notServer>>

\* the callback: STORE.update(loan_id, moneriumRedeem=result), then the
\* monerium-redeem event
RedeemUpdate ==
    /\ qw.pc = "update"
    /\ loans' = StoreUpdate(loans, qw.item.loan, [moneriumRedeem |-> TRUE])
    /\ qw' = [qw EXCEPT !.pc = "done", !.evq = <<"monerium-redeem">>]
    /\ UNCHANGED <<events, termsRows, railVars, http, resp, hnd, mon, used, coord, notServer>>

\* the record_event of the callback; then the worker takes the next item
RedeemEvent ==
    /\ qw.evq # << >>
    /\ events' = RecordEvent(events, qw.item.loan, Head(qw.evq))
    /\ qw' = IdleWorker
    /\ UNCHANGED <<loans, termsRows, railVars, http, resp, hnd, mon, used, coord, notServer>>

----------------------------------------------------------------------------
(* TaskQueue with callbacks of known behaviour: server.py                  *)

\* the work items submitted
TaskIds == {"k1", "k2"}

\* a callback that raises on every call
AlwaysFails == -1

\* how a callback behaves: the number of calls that raise before the first
\* call that returns, or AlwaysFails
Scripts == {0, 3, max_retries, AlwaysFails}

\* the worker threads: {NAME}_WORKERS of them, one by default
TqWorkers == {"w0", "w1"}

\* loan is the loan_id argument of a bridge release, "none" for a
\* callback of known behaviour
NoItem == [id |-> "none", fails |-> 0, attempts |-> 0, loan |-> "none"]

\* a worker at the head of its loop; slept is the time it has spent in
\* the time.sleep(delay) of a retry, in seconds
TqIdle == [pc |-> "idle", item |-> NoItem, slept |-> 0]

\* TaskQueue.__init__: an empty queue, the workers started
TqStart ==
    [queue |-> << >>,
     w |-> [x \in TqWorkers |-> TqIdle],
     stop |-> FALSE,
     script |-> [id \in TaskIds |-> 0],
     calls |-> [id \in TaskIds |-> 0],
     result |-> [id \in TaskIds |-> "new"]]

\* item.callback(*item.args, **item.kwargs) raises
CallbackFails(item) ==
    item.fails = AlwaysFails \/ item.attempts < item.fails

\* the retry test with the bound one too high
RetryAllowed_OneMore(attempts) == attempts <= max_retries + 1

\* the retry test with a strict comparison
RetryAllowed_Below(attempts) == attempts < max_retries

\* if item.attempts <= self.max_retries
RetryAllowed(attempts) == attempts <= max_retries

\* a queue of one place: put waits while it is taken
PutReady_Bounded(t) == Len(t.queue) < 1

\* self._queue = queue.Queue(): no maxsize, put never waits
PutReady(t) == TRUE

\* self._queue.put(WorkItem(name=name, callback=callback, args=args, ...))
Submitted(t, id, fails, loan_id) ==
    [t EXCEPT !.queue = Append(@, [id |-> id, fails |-> fails, attempts |-> 0,
                                   loan |-> loan_id]),
              !.script[id] = fails,
              !.result[id] = "pending"]

\* submit(name, callback, ...): a new WorkItem with attempts = 0 is put
TqSubmit(id, fails) ==
    /\ tq.result[id] = "new"
    /\ PutReady(tq)
    /\ tq' = Submitted(tq, id, fails, "none")
    /\ UNCHANGED notTask

\* stop()
TqStop ==
    /\ ~tq.stop
    /\ tq' = [tq EXCEPT !.stop = TRUE]
    /\ UNCHANGED notTask

\* while not self._stop_event.is_set(): false
TqExit(x) ==
    /\ tq.w[x].pc = "idle"
    /\ tq.stop
    /\ tq' = [tq EXCEPT !.w[x].pc = "exited"]
    /\ UNCHANGED notTask

\* while not self._stop_event.is_set(): true, the worker enters
\* self._queue.get(timeout=1.0)
TqLoop(x) ==
    /\ tq.w[x].pc = "idle"
    /\ ~tq.stop
    /\ tq' = [tq EXCEPT !.w[x].pc = "get"]
    /\ UNCHANGED notTask

\* except queue.Empty: continue
TqEmpty(x) ==
    /\ tq.w[x].pc = "get"
    /\ tq.queue = << >>
    /\ tq' = [tq EXCEPT !.w[x].pc = "idle"]
    /\ UNCHANGED notTask

\* item = self._queue.get(timeout=1.0) returns the item at the head
TqGet(x) ==
    /\ tq.w[x].pc = "get"
    /\ tq.queue # << >>
    /\ tq' = [tq EXCEPT !.queue = Tail(@),
                        !.w[x] = [TqIdle EXCEPT !.pc = "call", !.item = Head(tq.queue)]]
    /\ UNCHANGED notTask

\* the callback returned and the item is put again
Returned_PutsBack(t, x) ==
    [t EXCEPT !.calls[t.w[x].item.id] = @ + 1,
              !.result[t.w[x].item.id] = "succeeded",
              !.queue = Append(@, t.w[x].item),
              !.w[x] = TqIdle]

\* item.callback(...) returned: finally task_done(), and the loop goes on
Returned(t, x) ==
    [t EXCEPT !.calls[t.w[x].item.id] = @ + 1,
              !.result[t.w[x].item.id] = "succeeded",
              !.w[x] = TqIdle]

\* except Exception: attempts is incremented and the item is kept for a
\* retry or dropped
Raised(t, x) ==
    LET item == t.w[x].item
        failed == [item EXCEPT !.attempts = item.attempts + 1]
    IN  IF RetryAllowed(failed.attempts)
        THEN [t EXCEPT !.calls[item.id] = @ + 1,
                       !.w[x] = [pc |-> "backoff", item |-> failed, slept |-> 0]]
        ELSE [t EXCEPT !.calls[item.id] = @ + 1,
                       !.result[item.id] = "dropped",
                       !.w[x] = TqIdle]

\* the callback of known behaviour is called
TqCall(x) ==
    LET item == tq.w[x].item IN
    /\ tq.w[x].pc = "call"
    /\ item.loan = "none"
    /\ tq' = IF CallbackFails(item) THEN Raised(tq, x) ELSE Returned(tq, x)
    /\ UNCHANGED notTask

\* the delay doubled with each attempt
Delay_Exponential(attempts) == backoff * 2 ^ (attempts - 1)

\* delay = self.backoff * item.attempts
Delay(attempts) == backoff * attempts

\* time.sleep(delay): time passes, backoff seconds at a step
TqSleep(x) ==
    /\ tq.w[x].pc = "backoff"
    /\ tq.w[x].slept < Delay(tq.w[x].item.attempts)
    /\ tq' = [tq EXCEPT !.w[x].slept = @ + backoff]
    /\ UNCHANGED notTask

\* time.sleep(delay) is over: self._queue.put(item)
TqRequeue(x) ==
    /\ tq.w[x].pc = "backoff"
    /\ tq.w[x].slept >= Delay(tq.w[x].item.attempts)
    /\ PutReady(tq)
    /\ tq' = [tq EXCEPT !.queue = Append(@, tq.w[x].item),
                        !.w[x] = TqIdle]
    /\ UNCHANGED notTask

\* _handle_collateral_release_requested, called by the event worker with
\* the next log of its pass, btcRecipient given: the request is recorded
\* and the release is submitted to the bridge queue as task id
EwHandleRelease(loan_id, id) ==
    /\ ew.pc = "handle"
    /\ ew.todo > 0
    /\ tq.result[id] = "new"
    /\ PutReady(tq)
    /\ events' = RecordEvent(events, loan_id, "collateral-release-requested")
    /\ tq' = Submitted(tq, id, 0, loan_id)
    /\ ew' = [ew EXCEPT !.todo = ew.todo - 1]
    /\ UNCHANGED <<fetched, loans, termsRows, linkVars, termsVars, railVars,
                   procVars, apiVars, lockVars, oracleVars>>

\* a worker of the bridge queue calls _execute_bridge_release: it raises
\* while the stored collateral is unknown or not positive; otherwise
\* BRIDGE.initiate_unwrap is called and the release is recorded
BridgeCall(x) ==
    LET loan_id == tq.w[x].item.loan
        collateral == loans[loan_id].collateralBTCb
    IN  /\ tq.w[x].pc = "call"
        /\ loan_id # "none"
        /\ IF collateral <= 0
           THEN /\ tq' = Raised(tq, x)
                /\ events' = events
           ELSE /\ tq' = Returned(tq, x)
                /\ events' = RecordEvent(events, loan_id, "collateral-release-processed")
        /\ UNCHANGED <<loans, termsRows, linkVars, termsVars, railVars, procVars,
                       workerVars, apiVars, lockVars, oracleVars>>

----------------------------------------------------------------------------
(* Price oracle: server.py PriceOracleClient                               *)

\* PRICE_FEED_CACHE, in ticks of the clock of the oracle
cache_ttl == 2

\* how far the clock of the oracle runs, and how many calls are made
MaxOracleNow == 4
MaxOracleCalls == 3

DigitValue ==
    [c \in {"0", "1", "2", "3", "4", "5", "6", "7", "8", "9"} |->
        CASE c = "0" -> 0 [] c = "1" -> 1 [] c = "2" -> 2 [] c = "3" -> 3
          [] c = "4" -> 4 [] c = "5" -> 5 [] c = "6" -> 6 [] c = "7" -> 7
          [] c = "8" -> 8 [] c = "9" -> 9]

\* float(text) of a text of decimal digits, blanks around it allowed;
\* any other text of the alphabet raises ValueError
FloatParses(text) ==
    LET u == Strip(text) IN
    u # Empty /\ \A i \in 1..Len(u) : u[i] \in DOMAIN DigitValue

RECURSIVE DigitsValue(_)
DigitsValue(u) ==
    IF u = Empty THEN 0
    ELSE 10 * DigitsValue(SubSeq(u, 1, Len(u) - 1)) + DigitValue[u[Len(u)]]

FloatOf(text) == DigitsValue(Strip(text))

\* os.getenv("STATIC_BTC_EUR"): unset, a number, the empty text, a word
NoStatic == "unset"
StaticPrices == { NoStatic, <<"2", "0">>, <<" ", "7">>, Empty, <<"a">> }

\* what the price feed answers: a price, or the request or its parsing fails
FeedFails == -1
FeedAnswers == { FeedFails, 0, 1400, 2000 }

\* self._cache = None
NoCache == [set |-> FALSE, timestamp |-> 0, price |-> 0]

\* a call that has not been made
NoPrice == [kind |-> "none", price |-> 0, fetch |-> "none", hadCache |-> FALSE]

\* before PRICES = PriceOracleClient(); fetchedOnce is history: whether a
\* fetch has succeeded
OracleStart ==
    [made |-> FALSE, static_price |-> NoStatic, cache |-> NoCache, now |-> 0,
     out |-> NoPrice, fetchedOnce |-> FALSE, n |-> 0]

\* PriceOracleClient.__init__
OracleNew(static_price) ==
    /\ ~oracle.made
    /\ oracle' = [oracle EXCEPT !.made = TRUE, !.static_price = static_price]
    /\ UNCHANGED notOracle

\* time.time() advances
OracleTick ==
    /\ oracle.now < MaxOracleNow
    /\ oracle' = [oracle EXCEPT !.now = oracle.now + 1]
    /\ UNCHANGED notOracle

\* the except branch that raises although a price is cached
OnFetchError_Raises(cache) == [kind |-> "error-502", price |-> 0]

\* the except branch of current_price: the cached price if there is one
OnFetchError(cache) ==
    IF cache.set
    THEN [kind |-> "price", price |-> cache.price]
    ELSE [kind |-> "error-502", price |-> 0]

\* PriceOracleClient.current_price; answer is what the feed does if asked
CurrentPrice(answer) ==
    LET o == oracle
        fresh == o.cache.set /\ o.now - o.cache.timestamp < cache_ttl
        asked == o.static_price = NoStatic /\ ~fresh
        result ==
            IF o.static_price # NoStatic
            THEN IF FloatParses(o.static_price)
                 THEN [kind |-> "price", price |-> FloatOf(o.static_price)]
                 ELSE [kind |-> "error-value", price |-> 0]
            ELSE IF fresh
            THEN [kind |-> "price", price |-> o.cache.price]
            ELSE IF answer # FeedFails
            THEN [kind |-> "price", price |-> answer]
            ELSE OnFetchError(o.cache)
    IN  /\ o.made
        /\ o.n < MaxOracleCalls
        /\ oracle' = [o EXCEPT
              !.n = o.n + 1,
              !.cache = IF asked /\ answer # FeedFails
                        THEN [set |-> TRUE, timestamp |-> o.now, price |-> answer]
                        ELSE o.cache,
              !.fetchedOnce = o.fetchedOnce \/ (asked /\ answer # FeedFails),
              !.out = [kind |-> result.kind, price |-> result.price,
                       fetch |-> IF ~asked THEN "none"
                                 ELSE IF answer = FeedFails THEN "failed" ELSE "ok",
                       hadCache |-> o.cache.set]]
        /\ UNCHANGED notOracle

\* the threads of the server at start
ServerIdle(eth, ava) ==
    /\ http = IdleHttp
    /\ resp = NoResp
    /\ hnd = [h \in HandlerNames |-> IdleHandler]
    /\ mon = IdleMonitor
    /\ qw = IdleWorker
    /\ used = [req |-> 0, logs |-> 0, cycles |-> 0]
    /\ coord = [eth |-> eth, ava |-> ava]
    /\ redeems = {}
    /\ checked = {}
    /\ queue = << >>
    /\ tq = TqStart
    /\ oracle = OracleStart

NoReq == [wallet |-> Empty, iban |-> Empty, user |-> Empty, res |-> "none", rec |-> {}]

\* an empty registry; the signature library is importable or not
LinkStart(lib) ==
    /\ links = {}
    /\ lk = [t \in LinkThreads |-> IdleLink]
    /\ clock = 0
    /\ accountLib = lib
    /\ firstLinkTs = << >>
    /\ lastLink = << >>
    /\ linkAudit = {}
    /\ reqOut = NoReq

\* nothing but the registry in use
RestIdle ==
    /\ StoreEmpty
    /\ ServerIdle(TRUE, TRUE)
    /\ EwStart(NoBlock, TRUE)

InitLink ==
    /\ LinkStart(TRUE)
    /\ TermsIdle
    /\ RestIdle

NextLink ==
    \/ Tick
    \/ \E t \in LinkThreads, w \in RawWallets, i \in RawIbans, u \in RawUsers,
          o \in Opaque : LinkCall(t, w, i, u, o.signature, o.metadata)
    \/ \E t \in LinkThreads : LinkWrite(t)
    \/ \E t \in LinkThreads : LinkReturn(t)

SpecLink == InitLink /\ [][NextLink]_vars

\* ---- link_monerium_wallet with IBANs and rail user ids of several
\* lengths
HashWallets == { <<"A">>, <<"a", "1">> }
HashIbans == { <<"B", "1">>, <<"B">>, <<"1", "B">> }
HashUsers == { <<"1">>, <<"1", "1">> }

NextBinding ==
    \/ Tick
    \/ \E w \in HashWallets, i \in HashIbans, u \in HashUsers :
          LinkCall("t1", w, i, u, SigNone, Empty)
    \/ LinkWrite("t1")
    \/ LinkReturn("t1")

SpecBinding == InitLink /\ [][NextBinding]_vars

\* ---- the HTTP handler alone (one request at a time), with or without
\* the signature library
\* the wallet field of a link request: absent, or an address as typed
WalletHints == { Empty, <<"A">>, <<" ", "a">> }

InitHandler ==
    /\ \E lib \in BOOLEAN : LinkStart(lib)
    /\ TermsIdle
    /\ RestIdle

NextHandler ==
    \/ Tick
    \/ \E i \in RawIbans, u \in RawUsers, sg \in Sigs, msg \in Metas,
          h \in WalletHints : HandleMoneriumLink("t1", i, u, sg, msg, h)
    \/ LinkWrite("t1")
    \/ LinkReturn("t1")

SpecHandler == InitHandler /\ [][NextHandler]_vars

\* ---- the store called sequentially: link, then require
\* a call of LoanStore.require_monerium_link
Require(wallet, iban, user) ==
    /\ reqOut' = [wallet |-> wallet, iban |-> iban, user |-> user,
                  res |-> RequireOutcome(links, wallet, iban, user),
                  rec |-> RequireRecord(links, wallet, iban, user)]
    /\ UNCHANGED <<links, lk, clock, accountLib, firstLinkTs, lastLink, linkAudit, notLink>>

NextRequire ==
    \/ \E w \in RawWallets, i \in RawIbans, u \in RawUsers, o \in Opaque :
          LinkCall("t1", w, i, u, o.signature, o.metadata)
    \/ LinkWrite("t1")
    \/ LinkReturn("t1")
    \/ \E w \in RawWallets, i \in RawIbans, u \in RawUsers : Require(w, i, u)

SpecRequire == InitLink /\ [][NextRequire]_vars

\* ---- terms validation applied to every payload of the bounded set
InitTerms ==
    /\ \E lib \in BOOLEAN : LinkStart(lib)
    /\ tReq \in [payload : TermsPayloads, borrower : BorrowerWallets]
    /\ tRes = NoTermsResult
    /\ RestIdle

NextTerms == ValidateTerms

SpecTerms == InitTerms /\ [][NextTerms]_vars

\* ---- one event worker and the chain it polls
InitWorker ==
    /\ LinkStart(TRUE)
    /\ TermsIdle
    /\ StoreEmpty
    /\ ServerIdle(TRUE, TRUE)
    /\ \E start_block \in {NoBlock} \cup (0..MaxHeight), has_event \in BOOLEAN :
          EwStart(start_block, has_event)

NextWorker ==
    \/ EwStop
    \/ EwExit
    \/ EwPollFails
    \/ \E latest \in 0..MaxHeight : EwPoll(latest)
    \/ \E ok \in BOOLEAN, n \in 0..MaxLogs : EwFetch(ok, n)
    \/ \E raises \in BOOLEAN : EwHandle(raises)
    \/ EwAdvance

SpecWorker == InitWorker /\ [][NextWorker]_vars

\* the store methods called one after the other
InitStore ==
    /\ LinkStart(TRUE)
    /\ TermsIdle
    /\ RestIdle

NextStore ==
    \/ \E given \in PayloadIds, payload \in CreatePayloads : ApiCreate(given, payload)
    \/ \E id \in ApiIds, st \in {"active"} : ApiUpdate(id, st)
    \/ \E id \in ApiIds, a \in Amounts : ApiMarkRepaid(id, a)
    \/ \E id \in ApiIds : ApiMarkDefault(id, "manual-default")
    \/ \E id \in ApiIds, price \in {2000} : ApiUpdateHealth(id, price)
    \/ \E id \in ApiIds : ApiRecordEvent(id, "note")
    \/ \E id \in ApiIds : ApiGet(id)
    \/ \E id \in ApiIds : ApiHistory(id)

SpecStore == InitStore /\ [][NextStore]_vars

\* the risk monitor over loans the store was given
MonitorIds == {"0x1", "0x2"}

InitMonitor ==
    /\ LinkStart(TRUE)
    /\ TermsIdle
    /\ RestIdle

NextMonitor ==
    \/ \E id \in MonitorIds, c \in {0, 1} :
          ApiCreate(id, [principal |-> 1000, collateralBTCb |-> c])
    \/ \E id \in MonitorIds : ApiMarkDefault(id, "ltv-threshold")
    \/ MonitorPriceFails
    \/ \E price \in Prices \cup {0} : MonitorStart(price)
    \/ MonitorLoanFails
    \/ MonitorNext
    \/ MonitorDecide
    \/ MonitorEvent
    \/ MonitorSleep

SpecMonitor == InitMonitor /\ [][NextMonitor]_vars

\* two threads inside the methods of one store
InitLock ==
    /\ LinkStart(TRUE)
    /\ TermsIdle
    /\ RestIdle

NextLock ==
    \/ \E x \in LockThreads, op \in StoreOps : LkCall(x, op)
    \/ \E x \in LockThreads : LkAcquire(x)
    \/ \E x \in LockThreads : LkStart(x)
    \/ \E x \in LockThreads : LkFinish(x)
    \/ \E x \in LockThreads : LkRelease(x)

SpecLock == InitLock /\ [][NextLock]_vars

\* the task queue alone
InitOracle ==
    /\ LinkStart(TRUE)
    /\ TermsIdle
    /\ RestIdle

NextOracle ==
    \/ \E static_price \in StaticPrices : OracleNew(static_price)
    \/ OracleTick
    \/ \E answer \in FeedAnswers : CurrentPrice(answer)

SpecOracle == InitOracle /\ [][NextOracle]_vars

InitQueue ==
    /\ LinkStart(TRUE)
    /\ TermsIdle
    /\ RestIdle

TqStep(x) ==
    TqLoop(x) \/ TqEmpty(x) \/ TqGet(x) \/ TqCall(x) \/ TqSleep(x) \/ TqRequeue(x)

NextQueue ==
    \/ \E id \in TaskIds, fails \in Scripts : TqSubmit(id, fails)
    \/ TqStop
    \/ \E x \in TqWorkers : TqExit(x)
    \/ \E x \in TqWorkers : TqStep(x)

SpecQueue == InitQueue /\ [][NextQueue]_vars

\* the workers are scheduled: a worker that can take a step takes one
SpecQueueLive == SpecQueue /\ \A x \in TqWorkers : WF_vars(TqStep(x))

\* ---- the three background loops and their stop signals; the store
\* holds one loan from an earlier run
InitStop ==
    /\ LinkStart(TRUE)
    /\ TermsIdle
    /\ loans = StoreCreate([id \in AllIds |-> NoLoan], "0x1",
                           [principal |-> 1000, collateralBTCb |-> 1])
    /\ events = <<[loan |-> "0x1", event |-> "loan-created"]>>
    /\ termsRows = {}
    /\ api = NoCall
    /\ sl = LockFree
    /\ ServerIdle(TRUE, TRUE)
    /\ EwStart(0, TRUE)

\* the steps of the event worker thread
EwRun ==
    \/ EwExit
    \/ EwPoll(1)
    \/ \E ok \in BOOLEAN : EwFetch(ok, 1)
    \/ EwHandle(FALSE)
    \/ EwAdvance

\* the steps of the risk monitor thread
MonitorRun ==
    \/ MonitorExit
    \/ MonitorStart(1400)
    \/ MonitorLoanFails
    \/ MonitorNext
    \/ MonitorDecide
    \/ MonitorEvent
    \/ MonitorSleep

\* the steps of a worker thread of the task queue
TqRun(x) == TqExit(x) \/ TqStep(x)

NextStop ==
    \/ EwStop
    \/ EwRun
    \/ MonitorStop
    \/ MonitorRun
    \/ TqSubmit("k1", 1)
    \/ TqStop
    \/ \E x \in TqWorkers : TqRun(x)

\* the threads are scheduled, and the call or sleep a thread is in
\* returns: a thread that can take a step takes one
SpecStop ==
    /\ InitStop
    /\ [][NextStop]_vars
    /\ WF_vars(EwRun)
    /\ WF_vars(MonitorRun)
    /\ \A x \in TqWorkers : WF_vars(TqRun(x))

\* ---- the event worker and the risk monitor with their failing calls
EwThread == EwPollFails \/ EwRun

MonitorThread == MonitorPriceFails \/ MonitorRun

NextLoops ==
    \/ EwStop
    \/ EwThread
    \/ MonitorStop
    \/ MonitorThread

\* a thread in a sleep or in a call that returns or raises takes its
\* next step
SpecLoops ==
    /\ InitStop
    /\ [][NextLoops]_vars
    /\ WF_vars(EwThread)
    /\ WF_vars(MonitorThread)

\* ---- collateral releases: the event worker of CollateralReleaseRequested,
\* the handler of LoanRegistered, and the workers of the bridge queue
ReleaseIds == { "0x1" }

InitRelease ==
    /\ LinkStart(TRUE)
    /\ TermsIdle
    /\ StoreEmpty
    /\ ServerIdle(TRUE, TRUE)
    /\ EwStart(0, TRUE)

\* the event worker thread: one pass that fetches logs
ReleaseThread ==
    \/ EwPoll(1)
    \/ \E n \in 1..2 : EwFetch(TRUE, n)
    \/ \E loan_id \in ReleaseIds, id \in TaskIds : EwHandleRelease(loan_id, id)
    \/ EwAdvance

\* the handler of LoanRegistered in the thread of its event worker
RegisteredThread ==
    \/ \E loan_id \in ReleaseIds : LoanRegistered(loan_id, 1000, 1, <<"A">>)
    \/ RegisteredWrite
    \/ HandlerEvent("LoanRegistered")

\* a worker thread of the bridge queue
BridgeThread(x) ==
    TqLoop(x) \/ TqEmpty(x) \/ TqGet(x) \/ BridgeCall(x) \/ TqSleep(x) \/ TqRequeue(x)

NextRelease ==
    \/ ReleaseThread
    \/ RegisteredThread
    \/ \E x \in TqWorkers : BridgeThread(x)

\* every thread is scheduled
SpecRelease ==
    /\ InitRelease
    /\ [][NextRelease]_vars
    /\ WF_vars(ReleaseThread)
    /\ WF_vars(RegisteredThread)
    /\ \A x \in TqWorkers : WF_vars(BridgeThread(x))

\* only the event worker is scheduled: the workers of the queue may never
\* run
SpecSubmit ==
    /\ InitRelease
    /\ [][NextRelease]_vars
    /\ WF_vars(ReleaseThread)

\* ---- the status of one loan under the HTTP routes, the chain event
\* handlers and the risk monitor
StatusIds == { "0x1" }

InitStatus ==
    /\ LinkStart(TRUE)
    /\ TermsIdle
    /\ StoreEmpty
    /\ ServerIdle(TRUE, TRUE)
    /\ EwStart(NoBlock, TRUE)

NextStatus ==
    \/ \E id \in StatusIds, st \in Statuses \cup {"bogus"} : Patch(id, st)
    \/ \E id \in StatusIds : PostDefault(id)
    \/ \E id \in StatusIds, a \in Amounts, via \in {"manual", "iban"} :
          PostRepay(id, a, via)
    \/ RepayMark
    \/ HttpEvent
    \/ \E id \in StatusIds, c \in {0, 1} : LoanRegistered(id, 1000, c, <<"A">>)
    \/ RegisteredWrite
    \/ \E id \in StatusIds, a \in Amounts : RepaymentRecorded(id, a, FALSE)
    \/ RepaymentMark
    \/ RepaymentSubmit
    \/ \E id \in StatusIds : LiquidationTriggered(id)
    \/ LiquidationMark
    \/ \E h \in HandlerNames : HandlerEvent(h)
    \/ MonitorPriceFails
    \/ \E price \in Prices : MonitorStart(price)
    \/ MonitorNext
    \/ MonitorDecide
    \/ MonitorEvent
    \/ MonitorSleep

SpecStatus == InitStatus /\ [][NextStatus]_vars

\* ---- logs delivered again: the store as it is after the LoanRegistered
\* log of loan 0x1 (principal 1000, collateral 1, user A) and then its
\* RepaymentRecorded log (amount 1) were handled once
RegisteredRow ==
    CreateRecord([principal |-> 1000, collateralBTCb |-> 1, borrower |-> <<"A">>,
                  status |-> "active"])

InitRedeliver ==
    /\ LinkStart(TRUE)
    /\ TermsIdle
    /\ loans = MarkRepaid([[id \in AllIds |-> NoLoan] EXCEPT !["0x1"] = RegisteredRow],
                          "0x1", 1)
    /\ events = RecordEvents(<< >>, "0x1",
                    <<"loan-created", "loan-registered-onchain",
                      "repayment-recorded-onchain", "repayment-recorded">>)
    /\ termsRows = {}
    /\ api = NoCall
    /\ sl = LockFree
    /\ ServerIdle(TRUE, TRUE)
    /\ EwStart(NoBlock, TRUE)

NextRedeliver ==
    \/ \E st \in Statuses : Patch("0x1", st)
    \/ PostDefault("0x1")
    \/ HttpEvent
    \/ LoanRegistered("0x1", 1000, 1, <<"A">>)
    \/ RegisteredWrite
    \/ RepaymentRecorded("0x1", 1, FALSE)
    \/ RepaymentMark
    \/ RepaymentSubmit
    \/ \E h \in HandlerNames : HandlerEvent(h)

SpecRedeliver == InitRedeliver /\ [][NextRedeliver]_vars

\* ---- create-loan, the redeem route, the repayment handler and the
\* redemption queue, over a registry that wallets link to
InitCreate ==
    /\ LinkStart(TRUE)
    /\ TermsIdle
    /\ StoreEmpty
    /\ \E available \in BOOLEAN : ServerIdle(available, available)
    /\ EwStart(NoBlock, TRUE)

NextCreate ==
    \/ \E i \in { <<"B", "1">>, <<"A", "1">> }, o \in Opaque :
          LinkCall("t1", <<"A">>, i, <<"1">>, o.signature, o.metadata)
    \/ LinkWrite("t1")
    \/ LinkReturn("t1")
    \/ \E req \in CreateRequests : used.req < MaxPayoutRequests /\ PostLoans(req)
    \/ CreateBinding
    \/ \E outcome \in {"raises", "no-event", "0x1"} : CreateDeposit(outcome)
    \/ \E outcome \in {"raises", "funded", "unconfirmed"} : CreateFund(outcome)
    \/ CreatePersist
    \/ \E rail_ok \in BOOLEAN : CreatePayout(rail_ok)
    \/ CreatePayoutUpdate
    \/ HttpEvent
    \/ \E w \in { Empty, <<"A">> }, i \in { Empty, <<"b", " ", "1">>, <<"A", "1">> },
          rail_ok \in BOOLEAN : used.req < MaxPayoutRequests /\ PostRedeem(w, i, rail_ok)
    \/ \E via \in BOOLEAN : RepaymentRecorded("0x1", 1, via)
    \/ RepaymentMark
    \/ RepaymentSubmit
    \/ HandlerEvent("RepaymentRecorded")
    \/ QueueTake
    \/ \E rail_ok \in BOOLEAN : Redeem(rail_ok)
    \/ RedeemUpdate
    \/ RedeemEvent

SpecCreate == InitCreate /\ [][NextCreate]_vars

\* ---- create-loan requests with every kind of amount, the terms signed
ValidateRequests ==
    [nums : CreateNums \cup NegativeNums,
     borrower : { <<"A">> },
     terms : { t \in CreateTerms :
                 t # NoTerms /\ t.signature = GoodSig(<<"A">>) /\ t.termsHash = TERMS_HASH },
     termsSignature : { TermsSigNone },
     disburseVia : { "none" },
     iban : { Empty },
     loanId : { "none", "0x1" }]

NextValidate ==
    \/ \E req \in ValidateRequests : PostLoans(req)
    \/ CreateBinding
    \/ \E outcome \in {"raises", "no-event", "0x1"} : CreateDeposit(outcome)
    \/ \E outcome \in {"raises", "funded", "unconfirmed"} : CreateFund(outcome)
    \/ CreatePersist
    \/ HttpEvent

SpecValidate == InitCreate /\ [][NextValidate]_vars

----------------------------------------------------------------------------
(* Claims on the loan status, the payout gate and the create-loan pipeline *)

\* C1: once the stored status of a loan is repaid or defaulted, no step of
\* any component (store operation, PATCH /loans/{id}, chain event handler,
\* risk monitor) makes it active again.
C1_NeverActiveAgain ==
    [][\A id \in AllIds :
          loans[id].status \in {"repaid", "defaulted"}
             => loans'[id].status # "active"]_vars

\* the reasons mark_default is called with
C2_Reasons == { "manual-default", "liquidation", "ltv-threshold" }

\* C2: mark_default, by whichever component calls it, never turns a repaid
\* loan into a defaulted one, and mark_repaid never turns a defaulted loan
\* into a repaid one: the status changes only from active.
C2_NoTerminalSwap ==
    [][\A id \in AllIds :
          /\ (loans[id].status = "repaid"
              /\ \E reason \in C2_Reasons : loans' = MarkDefault(loans, id, reason))
                => loans'[id].status # "defaulted"
          /\ (loans[id].status = "defaulted"
              /\ \E amount \in Amounts : loans' = MarkRepaid(loans, id, amount))
                => loans'[id].status # "repaid"]_vars

\* C3: every redemption the rail executed (create-loan payout, redeem route,
\* queued redemption of the repayment handler) went to an IBAN that a
\* successful require_monerium_link check had matched with a stored binding
\* beforehand.
C3_RedeemOnlyChecked ==
    \A r \in redeems : \E c \in checked : c.iban = normalize_iban(r.iban)

\* ---- the notions C4 uses
C4_NoTermsRequests ==
    { req \in CreateRequests : req.terms = NoTerms /\ req.termsSignature = TermsSigNone }

\* a step of the create-loan pipeline that writes a loan row or an event
C4_PipelineWrites ==
    /\ http.c # NoCreate
    /\ http' # http
    /\ <<loans, events>>' # <<loans, events>>

C4_TermsValid ==
    LET v == ValidateTermsAcceptance(accountLib, http.c.terms, http.c.borrower) IN
    v.ok /\ v.wallet = NormWallet(http.c.borrower)

----------------------------------------------------------------------------
(* Claims on the event worker                                              *)

\* C10: every get_logs call of the event worker asks for the blocks from
\* lastSeen+1 to the latest height it read, a non-empty range; a pass that
\* reads a height equal to or below lastSeen fetches nothing, calls no
\* handler and leaves lastSeen as it was; lastSeen never decreases.
C10_FetchRange ==
    [][/\ fetched' # fetched =>
             /\ ew.last # NoBlock
             /\ fetched'.from = ew.last + 1
             /\ fetched'.to = ew.latest
             /\ fetched'.from <= fetched'.to
       /\ ew.pc \in {"fetch", "handle"} => ew.last # NoBlock /\ ew.last < ew.latest
       /\ (ew.pc = "poll" /\ ~ew.stop /\ ew.last # NoBlock /\ ew'.latest <= ew.last) =>
             /\ ew'.pc = "poll"
             /\ ew'.last = ew.last
             /\ fetched' = fetched
       /\ ew.last # NoBlock => ew'.last >= ew.last]_vars

\* C10 witness: blocks 2..3 were fetched, lastSeen advanced to 3, and a later
\* pass that read height 1 was skipped
C10_Witness ==
    /\ fetched.from = 2
    /\ fetched.to = 3
    /\ ew.last = 3
    /\ ew.latest = 1
    /\ ew.pc = "poll"

----------------------------------------------------------------------------
(* Claims on the binding registry                                          *)

\* C6 as stated: require_monerium_link fails when no binding is stored for
\* the normalised wallet, fails when a supplied IBAN normalises to a value
\* different from the stored IBAN, fails when a supplied rail user id
\* differs from the stored one, otherwise returns the stored binding, and
\* never modifies the store.
C6_AsStated ==
    [][reqOut' # reqOut =>
        LET q == reqOut'
            stored == {r \in links : r.wallet = NormWallet(q.wallet)}
        IN  /\ links' = links
            /\ stored = {} => q.res # "ok"
            /\ (q.iban # Empty /\ \E r \in stored : normalize_iban(q.iban) # r.iban)
                  => q.res # "ok"
            /\ (q.user # Empty /\ \E r \in stored : q.user # r.user)
                  => q.res # "ok"
            /\ q.res = "ok" => q.rec = stored /\ stored # {}]_vars

\* C6 amended: require_monerium_link fails when no binding is stored for
\* the normalised wallet, fails when a supplied IBAN normalises to a value
\* different from the stored IBAN, fails when a supplied rail user id
\* differs, after trimming, from the stored one, and in every other case
\* returns the stored binding; it never modifies the store.
C6_RequireBinding ==
    [][reqOut' # reqOut =>
        LET q == reqOut'
            stored == {r \in links : r.wallet = NormWallet(q.wallet)}
            noLink == stored = {}
            badIban == q.iban # Empty /\ \E r \in stored : normalize_iban(q.iban) # r.iban
            badUser == q.user # Empty /\ \E r \in stored : Strip(q.user) # r.user
        IN  /\ links' = links
            /\ noLink => q.res = "monerium link not found" /\ q.rec = {}
            /\ (~noLink /\ badIban) =>
                  q.res = "iban does not match linked account" /\ q.rec = {}
            /\ (~noLink /\ ~badIban /\ badUser) =>
                  q.res = "monerium user id does not match linked account" /\ q.rec = {}
            /\ (~noLink /\ ~badIban /\ ~badUser) => q.res = "ok" /\ q.rec = stored]_vars

\* C6 witness: a check that succeeded for an IBAN and a user id whose raw
\* spelling differs from the stored, normalised values
C6_Witness ==
    /\ reqOut.res = "ok"
    /\ reqOut.iban = <<"b", " ", "1">>
    /\ reqOut.user = <<"1", " ">>
    /\ reqOut.wallet = <<" ", "a">>

\* ---- the checks C5 names, stated on the arguments of the call
C5_Claimed == CoalesceAddress(<<tReq.payload.wallet, tReq.borrower>>)
C5_WalletOk == NormWallet(C5_Claimed) = NormWallet(tReq.borrower)
C5_HashOk ==
    /\ Strip(tReq.payload.termsHash) # Empty
    /\ StrLower(WithHexPrefix(Strip(tReq.payload.termsHash))) = StrLower(TERMS_HASH)
C5_VersionOk ==
    tReq.payload.termsVersion # Empty => tReq.payload.termsVersion = TERMS_VERSION
C5_TimestampOk ==
    /\ tReq.payload.timestamp.k = "int"
    /\ tReq.payload.timestamp.v > 0
C5_SignatureOk ==
    LET sg == tReq.payload.signature IN
    /\ accountLib
    /\ sg.kind = "by"
    /\ StrLower(sg.signer) = NormWallet(C5_Claimed)
    /\ sg.wallet = ChecksumAddress(C5_Claimed)
    /\ sg.termsHash = StrLower(WithHexPrefix(Strip(tReq.payload.termsHash)))
    /\ sg.timestamp = tReq.payload.timestamp.v
C5_HashReasons == {"terms hash missing", "terms hash mismatch"}
C5_VersionReasons == {"terms version mismatch"}
C5_TimestampReasons == {"terms timestamp invalid"}
C5_SignatureReasons ==
    {"terms acceptance signature missing", "invalid terms acceptance payload",
     "invalid terms acceptance signature", "terms signature does not match wallet",
     "terms signature validation unavailable"}

C7_ReturnedHashOfOwnInputs ==
    [][\A t \in LinkThreads :
         (lk[t].pc = "read" /\ lk'[t].pc = "idle") =>
            \A r \in LinkReturned(t) :
               r.bindingHash = BindingHash(lk[t].wallet, lk[t].iban, lk[t].user)]_vars

\* C8: after any sequence of link calls, concurrent ones included, the
\* table holds at most one row per normalised wallet; the row's IBAN and
\* user id are those of the call applied last, its bindingHash is the digest
\* of exactly the stored (wallet, IBAN, user id), and its createdAt is the
\* timestamp of the first link applied for that wallet.
C8_OneBindingPerWallet ==
    /\ \A r1, r2 \in links : NormWallet(r1.wallet) = NormWallet(r2.wallet) => r1 = r2
    /\ \A w \in DOMAIN lastLink : \E r \in links : r.wallet = w
    /\ \A r \in links :
          /\ r.wallet = NormWallet(r.wallet)
          /\ r.wallet \in DOMAIN lastLink
          /\ r.iban = lastLink[r.wallet].iban
          /\ r.user = lastLink[r.wallet].user
          /\ r.bindingHash = BindingHash(r.wallet, r.iban, r.user)
          /\ r.createdAt = firstLinkTs[r.wallet]

\* C8 witness: a wallet linked twice by overlapping calls, the call that
\* started first being applied last
C8_Witness ==
    \E r \in links : r.updatedAt < r.createdAt

\* C9 as stated: every binding the wallet-link handler writes was written
\* after signature recovery succeeded and after the rail confirmed the
\* (user id, IBAN) pair, and is stored under the wallet recovered from the
\* signature.
C9_BindingOnlyAfterRecovery ==
    \A a \in linkAudit :
       /\ a.recovered
       /\ a.signature.kind = "by"
       /\ a.wallet = StrLower(a.signature.signer)
       /\ VerifyUserIban(a.user, a.iban) # {}

\* C11: within one pass of the event worker a handler call that raises
\* does not keep the handler from being called for each remaining log, does
\* not stop the worker, and the pass ends by setting _last_block to latest
\* whatever the handler calls did.
C11_PassSurvivesHandlerErrors ==
    [][ew.pc = "handle" =>
          /\ ew.failed <= ew.logs - ew.todo
          /\ ew'.pc # "exited"
          /\ (ew.todo > 0 /\ ew'.stop = ew.stop) =>
                /\ ew'.pc = "handle"
                /\ ew'.todo = ew.todo - 1
                /\ ew'.last = ew.last
          /\ ew'.pc = "poll" =>
                /\ ew.todo = 0
                /\ ew'.last = ew.latest]_vars

\* C11 witness: a pass of two logs has ended, both handler calls raised,
\* and _last_block is the latest block of that pass
C11_Witness ==
    /\ ew.pc = "poll"
    /\ ew.logs = 2
    /\ ew.failed = 2
    /\ ew.todo = 0
    /\ ew.last = ew.latest
    /\ ~ew.stop

\* what holds of a task in every state: a callback that fails k times, k <=
\* max_retries, is never dropped and has succeeded after exactly k + 1 calls
TqKept(id) ==
    tq.script[id] # AlwaysFails =>
       /\ tq.result[id] # "dropped"
       /\ tq.calls[id] <= tq.script[id] + 1
       /\ tq.result[id] = "succeeded" => tq.calls[id] = tq.script[id] + 1

\* C12: a task whose callback fails k times and then succeeds, k <=
\* max_retries, is put back after each failure, is never abandoned, and is
\* eventually executed successfully unless the queue is stopped.
C12_RetriedUntilSuccess ==
    /\ [](\A id \in TaskIds : TqKept(id))
    /\ \A id \in TaskIds :
          (tq.result[id] = "pending" /\ tq.script[id] # AlwaysFails)
             ~> (tq.result[id] = "succeeded" \/ tq.stop)

\* C12 witness: a callback that failed max_retries times succeeded on the
\* next call, and one that failed 3 times on its 4th
C12_Witness ==
    /\ ~tq.stop
    /\ tq.script["k1"] = max_retries
    /\ tq.result["k1"] = "succeeded"
    /\ tq.calls["k1"] = max_retries + 1
    /\ tq.script["k2"] = 3
    /\ tq.result["k2"] = "succeeded"
    /\ tq.calls["k2"] = 4

\* where a task is: waiting in the queue, or held by a worker
TqQueued(id) == \E i \in 1..Len(tq.queue) : tq.queue[i].id = id
TqHeld(id) == \E x \in TqWorkers : tq.w[x].item.id = id

\* C13: the callback of a task is called at most max_retries + 1 times; an
\* item waits in the queue again only with an attempt count <= max_retries;
\* a task whose callback always fails is dropped after exactly
\* max_retries + 1 calls and is never in the queue again.
C13_BoundedRetries ==
    /\ [](\A id \in TaskIds :
            /\ tq.calls[id] <= max_retries + 1
            /\ \A i \in 1..Len(tq.queue) :
                  tq.queue[i].id = id =>
                     /\ tq.queue[i].attempts <= max_retries
                     /\ tq.queue[i].attempts = tq.calls[id]
            /\ tq.result[id] = "dropped" =>
                  /\ tq.calls[id] = max_retries + 1
                  /\ ~TqQueued(id)
                  /\ ~TqHeld(id)
            /\ (tq.script[id] = AlwaysFails /\ tq.calls[id] = max_retries + 1) =>
                  tq.result[id] = "dropped")
    /\ [][\A id \in TaskIds :
            tq.result[id] = "dropped" =>
               tq'.result[id] = "dropped" /\ tq'.calls[id] = tq.calls[id]]_vars

\* C13 witness: a task whose callback always fails was dropped after
\* max_retries + 1 calls while the workers go on
C13_Witness ==
    /\ ~tq.stop
    /\ tq.script["k1"] = AlwaysFails
    /\ tq.result["k1"] = "dropped"
    /\ tq.calls["k1"] = max_retries + 1

\* C16: record_event on an identifier without a loan record succeeds and
\* the event is the last entry of history(id); it creates no loan record, so
\* a get that follows returns absent; get on an identifier without a loan
\* record returns absent.
C16_EventWithoutLoan ==
    /\ (api.op = "record_event" /\ api.before.status = "absent") =>
          /\ api.ok
          /\ History(events, api.id) # << >>
          /\ History(events, api.id)[Len(History(events, api.id))] = api.event
          /\ Len(events) = api.nev + 1
          /\ loans[api.id].status = "absent"
    /\ (api.op = "get" /\ api.prev.op = "record_event" /\ api.prev.id = api.id
          /\ api.prev.before.status = "absent") => ~api.found
    /\ (api.op = "get" /\ loans[api.id].status = "absent") =>
          ~api.found /\ api.loan = NoLoan
    /\ (api.op = "history" /\ api.prev.op = "record_event" /\ api.prev.id = api.id) =>
          api.hist # << >> /\ api.hist[Len(api.hist)] = "note"

\* C16 witness: an event was recorded under an identifier that has no loan
\* record, and the get that followed returned absent
C16_Witness ==
    /\ api.op = "get"
    /\ ~api.found
    /\ api.prev.op = "record_event"
    /\ api.prev.id = api.id
    /\ api.prev.before.status = "absent"
    /\ History(events, api.id) = <<"note">>

\* the row a single mark_repaid(id, amount) leaves, given the row before it
C17_Single(before, amount) ==
    [(IF before.status = "absent" THEN Scaffold ELSE before)
        EXCEPT !.status = "repaid", !.repaidAmount = amount]

\* C17: mark_repaid(id, a1) followed by mark_repaid(id, a2) leaves status
\* repaid after each call and repaidAmount = a2 after the second; the row
\* equals the one a single mark_repaid(id, a2) leaves (repaidAt apart).
C17_RepaidTwice ==
    (api.op = "mark_repaid" /\ api.prev.op = "mark_repaid" /\ api.prev.id = api.id) =>
       /\ api.prev.loan.status = "repaid"
       /\ api.prev.loan.repaidAmount = api.prev.amount
       /\ loans[api.id].status = "repaid"
       /\ loans[api.id].repaidAmount = api.amount
       /\ loans[api.id] = C17_Single(api.prev.before, api.amount)
       /\ api.loan = loans[api.id]

\* C17 witness: an active loan was marked repaid with amount 1 and then
\* with amount 2
C17_Witness ==
    /\ api.op = "mark_repaid"
    /\ api.amount = 2
    /\ api.prev.op = "mark_repaid"
    /\ api.prev.id = api.id
    /\ api.prev.amount = 1
    /\ api.prev.before.status = "active"

\* C19 as stated: create with a payload that has neither loanId nor loan_id
\* stores the loan under a generated identifier with status active and
\* zeroed financial defaults, appends exactly one loan-created event under
\* that identifier, and does not overwrite the loan of an earlier
\* identifier-less create.
C19_GeneratedIdentifier ==
    (api.op = "create" /\ api.given = NoKey) =>
       /\ api.id = GeneratedId
       /\ loans[api.id].status = "active"
       /\ Len(events) = api.nev + 1
       /\ events[Len(events)] = [loan |-> api.id, event |-> "loan-created"]
       /\ api.id \notin api.anonBefore

\* C14: for a loan the monitor evaluates, with ltv = principal /
\* (collateral * price): at ltv >= 0.7 the loan is marked defaulted with
\* reason ltv-threshold and no ltv-warning is recorded; else at ltv >= 0.65
\* one ltv-warning is recorded and the loan is left as it is; else neither.
\* A loan is decided once per cycle, and an ltv-warning is recorded by no
\* other step.  Principal 1000, collateral 1: nothing at 2000, a warning at
\* 1430, default at 1400.
C14_Thresholds ==
    [][LET id == mon.loan
           l == mon.snap[id]
           value == l.collateralBTCb * mon.price
           liq == l.principal * 100 >= 70 * value
           warn == l.principal * 100 >= 65 * value
           warning == [loan |-> id, event |-> "ltv-warning"]
           defaulted == /\ loans'[id].status = "defaulted"
                        /\ loans'[id].defaultReason = "ltv-threshold"
                        /\ events' = events
                        /\ mon'.evq = <<"loan-defaulted">>
           warned == /\ loans' = loans
                     /\ events' = Append(events, warning)
                     /\ mon'.evq = << >>
           nothing == /\ loans' = loans
                      /\ events' = events
                      /\ mon'.evq = << >>
       IN  /\ (mon.pc = "decide" /\ mon'.pc = "loop") =>
                /\ liq => defaulted
                /\ (~liq /\ warn) => warned
                /\ (~liq /\ ~warn) => nothing
                /\ (l.principal = 1000 /\ l.collateralBTCb = 1) =>
                      /\ mon.price = 2000 => nothing
                      /\ mon.price = 1430 => warned
                      /\ mon.price = 1400 => defaulted
           /\ mon.pc = "decide" =>
                \A i \in 1..Len(mon.todo) : mon.todo[i] # id
           /\ \A i, j \in 1..Len(mon.todo) : mon.todo[i] = mon.todo[j] => i = j
           /\ (Len(events') > Len(events)
                 /\ events'[Len(events')].event = "ltv-warning") =>
                mon.pc = "decide" /\ ~liq /\ warn]_vars

\* C14 witness: a cycle at price 1400 is over; the loan with principal 1000
\* and collateral 1 is defaulted with reason ltv-threshold and the log holds
\* no ltv-warning
C14_Witness ==
    /\ mon.pc = "loop"
    /\ mon.todo = << >>
    /\ mon.evq = << >>
    /\ mon.price = 1400
    /\ loans["0x1"].status = "defaulted"
    /\ loans["0x1"].defaultReason = "ltv-threshold"
    /\ loans["0x1"].principal = 1000
    /\ loans["0x1"].collateralBTCb = 1
    /\ \A i \in 1..Len(events) : events[i].event # "ltv-warning"
    /\ \E i \in 1..Len(events) : events[i] = [loan |-> "0x1", event |-> "loan-defaulted"]

\* C15 as stated: when the processing of one loan fails during a cycle of
\* the risk monitor, the loans that follow it in the list are still
\* evaluated in that cycle.
C15_CycleContinuesAfterFailure ==
    [][(~mon.err /\ mon'.err) =>
          \/ \A i \in 2..Len(mon.todo) : ~Evaluated(mon.snap[mon.todo[i]], mon.price)
          \/ mon'.pc = "loop" /\ mon'.todo = Tail(mon.todo)]_vars

\* a is an initial part of b
C18_Prefix(a, b) ==
    Len(a) <= Len(b) /\ \A i \in 1..Len(a) : a[i] = b[i]

\* C18: the audit log is append-only and loans are never deleted: whatever
\* step a component takes, history(id) before it is an initial part of
\* history(id) after it, and a loan record that exists still exists.
C18_AppendOnly ==
    [][/\ C18_Prefix(events, events')
       /\ \A id \in AllIds :
             /\ C18_Prefix(History(events, id), History(events', id))
             /\ loans[id].status # "absent" => loans'[id].status # "absent"]_vars

\* C18 witness: a loan registered from the chain was repaid and then
\* defaulted; its three events are in the log in the order they were made
C18_Witness ==
    /\ loans["0x1"].status = "defaulted"
    /\ Len(History(events, "0x1")) >= 3
    /\ \E i, j \in 1..Len(events) :
          /\ i < j
          /\ events[i] = [loan |-> "0x1", event |-> "repayment-recorded"]
          /\ events[j] = [loan |-> "0x1", event |-> "loan-defaulted"]

\* C20 as stated: every write of a mutating method of the store is made
\* while the calling thread holds the lock of the store, so two writes
\* never overlap and no write is under way while list() reads.
C20_WritesUnderLock ==
    /\ \A x \in LockThreads : sl.t[x].busy = "write" => sl.holder = x
    /\ \A x, y \in LockThreads :
          (sl.t[x].busy = "write" /\ sl.t[y].busy = "write") => x = y
    /\ \A x, y \in LockThreads :
          (sl.t[x].op = "list" /\ sl.t[x].busy = "read") => sl.t[y].busy # "write"

\* C21: the stages of create-loan before the persist stage write no loan
\* record, no audit event and make no payout call; when the deposit stage
\* fails (the chain call fails, or the receipt has no CollateralDeposited
\* event) or the funding stage fails, the request ends there with an error
\* response.
C21_NoPartialLoan ==
    [][/\ (http.pc \in {"binding", "deposit", "fund"} /\ http' # http) =>
             /\ loans' = loans
             /\ events' = events
             /\ redeems' = redeems
             /\ queue' = queue
       /\ (http.pc = "idle" /\ http'.pc = "binding") =>
             loans' = loans /\ events' = events /\ redeems' = redeems
       /\ (http.pc = "deposit" /\ http' # http) =>
             \/ http'.pc = "idle" /\ resp'.status = 502
             \/ /\ http'.pc = "fund"
                /\ coord.ava => http'.c.loanId \in LoanIds
       /\ (http.pc = "fund" /\ http' # http) =>
             \/ http'.pc = "idle" /\ resp'.status \in {412, 502}
             \/ http'.pc = "persist"
       /\ (redeems' # redeems /\ http.pc \in {"binding", "deposit", "fund", "persist", "payout"}
              /\ http' # http) =>
             /\ http.pc = "payout"
             /\ loans[http.loan].status # "absent"]_vars

\* C21 witness: a create-loan request whose terms were accepted ended with
\* the missing-confirmation error; the store holds the terms acceptance but
\* no loan and no event, and no redemption was made
C21_Witness ==
    /\ resp.status = 502
    /\ resp.reason = "Collateral deposit confirmation missing"
    /\ http.pc = "idle"
    /\ termsRows # {}
    /\ \A id \in AllIds : loans[id].status = "absent"
    /\ events = << >>
    /\ redeems = {}

\* C22: after create-loan answered 201, the store holds a terms-acceptance
\* row for the borrower's normalized wallet with the validated hash and
\* timestamp, the loan returned carries the validated hash, timestamp,
\* version and signature, and the history of the loan has a terms-accepted
\* event.
C22_TermsPersisted ==
    resp.status = 201 =>
        LET v == resp.validated
            wallet_norm == StrLower(Strip(resp.loan.borrower))
        IN  /\ v.ok
            /\ \E r \in termsRows :
                  /\ r.wallet = wallet_norm
                  /\ r.termsHash = v.termsHash
                  /\ r.acceptedAt = v.timestamp
            /\ resp.loan.termsAcceptedHash = v.termsHash
            /\ resp.loan.termsAcceptedAt = v.timestamp
            /\ resp.loan.termsAcceptance.termsVersion = v.termsVersion
            /\ resp.loan.termsAcceptance.wallet = wallet_norm
            /\ resp.loan.termsSignature = v.signature
            /\ \E k \in 1..Len(events) :
                  events[k] = [loan |-> resp.loanId, event |-> "terms-accepted"]

\* C22 witness: a create-loan with a payout answered 201 and returned a
\* loan with the current terms hash
C22_Witness ==
    /\ resp.status = 201
    /\ resp.loan.moneriumPayout
    /\ resp.loan.termsAcceptedHash = StrLower(TERMS_HASH)
    /\ resp.loan.termsSignature.kind # "none"
    /\ termsRows # {}

\* C23: current_price raises only when the feed was asked, failed, and no
\* price was cached, or when the configured static price is not a number;
\* with no static price configured, every call made after a successful
\* fetch returns a price.
C23_FailsOnlyWithoutCache ==
    /\ oracle.out.kind \in {"error-502", "error-value"} =>
          \/ /\ oracle.out.kind = "error-502"
             /\ oracle.out.fetch = "failed"
             /\ ~oracle.out.hadCache
             /\ ~oracle.fetchedOnce
          \/ /\ oracle.out.kind = "error-value"
             /\ oracle.static_price # NoStatic
             /\ ~FloatParses(oracle.static_price)
    /\ (oracle.fetchedOnce /\ oracle.out.kind # "none") => oracle.out.kind = "price"
    /\ (oracle.out.kind = "price" /\ oracle.out.fetch = "failed") =>
          oracle.out.price = oracle.cache.price

\* C23 witness: the refetch failed after the time to live had run out and
\* the call returned the last known price
C23_Witness ==
    /\ oracle.out.kind = "price"
    /\ oracle.out.fetch = "failed"
    /\ oracle.out.hadCache
    /\ oracle.now - oracle.cache.timestamp >= cache_ttl
    /\ oracle.out.price = 1400

\* C23 as stated: a call fails only when the fetch failed and nothing was
\* ever cached
C23_AsStated ==
    oracle.out.kind \in {"error-502", "error-value"} =>
        oracle.out.fetch = "failed" /\ ~oracle.fetchedOnce

\* C24: after stop is signalled to the event worker, to the risk monitor
\* or to the task queue, the loop of that thread (of every worker thread of
\* the queue) exits.
C24_LoopsExitAfterStop ==
    /\ ew.stop ~> ew.pc = "exited"
    /\ mon.stop ~> mon.pc = "exited"
    /\ tq.stop ~> \A x \in TqWorkers : tq.w[x].pc = "exited"

\* C24 witness: every loop has exited after doing work: the worker handled
\* a log, the monitor defaulted the loan, the queue retried its task
C24_Witness ==
    /\ ew.pc = "exited" /\ ew.logs > 0
    /\ mon.pc = "exited" /\ loans["0x1"].status = "defaulted"
    /\ \A x \in TqWorkers : tq.w[x].pc = "exited"
    /\ tq.calls["k1"] > 1

\* C25: when a loan record with the identifier exists, the create of
\* create-loan leaves the fields of the record that its payload does not
\* carry as they were: the amount repaid, the default reason, the last
\* price and the rail markers written by earlier writers survive.
C25_FirstWriterSurvives ==
    [][\A id \in AllIds :
         (/\ loans[id].status # "absent"
          /\ http.pc = "persist"
          /\ http'.pc # "persist"
          /\ http.c.loanId = id) =>
             /\ loans'[id].repaidAmount = loans[id].repaidAmount
             /\ loans'[id].defaultReason = loans[id].defaultReason
             /\ loans'[id].lastPriceEur = loans[id].lastPriceEur
             /\ loans'[id].moneriumRedeem = loans[id].moneriumRedeem
             /\ loans'[id].moneriumPayout = loans[id].moneriumPayout]_vars

\* C27: the repayment handler puts a redemption task on the queue only
\* after mark_repaid was applied to the loan and only when the stored loan
\* has disburseVia = monerium and an IBAN.
C27_SubmitOnlyFlagged ==
    [][Len(queue') > Len(queue) =>
         LET c == hnd["RepaymentRecorded"]
             loan == loans[c.loan]
         IN  /\ c.pc = "read"
             /\ loan.status = "repaid"
             /\ loan.repaidAmount = c.amount
             /\ loan.disburseVia = "monerium"
             /\ loan.iban # Empty]_vars

\* the events create-loan writes
CreateEventNames ==
    { "loan-created", "loan-validated", "terms-accepted",
      "collateral-deposit-confirmed", "loan-funded-confirmed", "payout-executed" }

\* the pending events in the order create-loan can append them
PendingOrder ==
    <<"terms-accepted", "collateral-deposit-confirmed", "loan-funded-confirmed">>

\* C26: when create-loan has answered 201 and no other request has begun,
\* the events of the pipeline in the history of the loan end with, in this
\* order: loan-created, loan-validated, the pending events as accumulated
\* (terms-accepted, then collateral-deposit-confirmed when a deposit was
\* made, then loan-funded-confirmed when the funding was confirmed), and
\* payout-executed last, present exactly when the payout was made.
C26_HistoryOrder ==
    (resp.status = 201 /\ http.pc = "idle") =>
        LET written == SelectSeq(History(events, resp.loanId),
                                 LAMBDA e : e \in CreateEventNames)
            paid == resp.loan.moneriumPayout
            expected == <<"loan-created", "loan-validated">> \o resp.pending
                           \o (IF paid THEN <<"payout-executed">> ELSE << >>)
        IN  /\ Len(written) >= Len(expected)
            /\ SubSeq(written, Len(written) - Len(expected) + 1, Len(written))
                  = expected
            /\ resp.pending = SelectSeq(PendingOrder,
                                 LAMBDA e : \E k \in 1..Len(resp.pending) :
                                               resp.pending[k] = e)
            /\ resp.pending[1] = "terms-accepted"
            /\ (\E k \in 1..Len(resp.pending) :
                   resp.pending[k] = "collateral-deposit-confirmed") <=> coord.ava
            /\ paid => \E r \in redeems : r.by = "create" /\ r.iban = resp.loan.iban
            /\ paid <=> WantsPayout(resp.loan)

\* C26 witness: a create-loan with deposit, confirmed funding and payout
\* was answered 201 and its last event is payout-executed
C26_Witness ==
    /\ resp.status = 201
    /\ http.pc = "idle"
    /\ resp.pending = PendingOrder
    /\ events # << >>
    /\ events[Len(events)] = [loan |-> resp.loanId, event |-> "payout-executed"]

\* the event each of the three methods records
MatchingEvent(op) ==
    CASE op = "mark_repaid" -> "repayment-recorded"
      [] op = "mark_default" -> "loan-defaulted"
      [] op = "update_health" -> "health-check"

EventCount(es, loan_id, name) ==
    Len(SelectSeq(es, LAMBDA e : e.loan = loan_id /\ e.event = name))

\* the status and the amounts of a loan
LoanCore(loan) ==
    <<loan.status, loan.principal, loan.collateralBTCb, loan.repaidAmount>>

\* C28: when the loan-registered or the repayment-recorded handler is
\* invoked with a log it has handled before (its on-chain event is in the
\* history of the loan already), its write leaves the status, principal,
\* collateral and repaid amount of the loan as they were.
C28_RedeliveryIdempotent ==
    [][/\ (/\ hnd["LoanRegistered"].pc = "write"
           /\ hnd'["LoanRegistered"].pc = "done"
           /\ EventCount(events, hnd["LoanRegistered"].loan,
                         "loan-registered-onchain") >= 1) =>
              LoanCore(loans'[hnd["LoanRegistered"].loan])
                 = LoanCore(loans[hnd["LoanRegistered"].loan])
       /\ (/\ hnd["RepaymentRecorded"].pc = "mark"
           /\ hnd'["RepaymentRecorded"].pc = "read"
           /\ EventCount(events, hnd["RepaymentRecorded"].loan,
                         "repayment-recorded-onchain") >= 2) =>
              LoanCore(loans'[hnd["RepaymentRecorded"].loan])
                 = LoanCore(loans[hnd["RepaymentRecorded"].loan])]_vars

\* the events that come with a change of status, and the status each
\* implies; status-updated carries the status it was given, which the
\* event rows here do not keep
StatusEvents ==
    { "loan-created", "loan-registered-onchain", "repayment-recorded",
      "loan-defaulted", "status-updated" }

ImpliedStatus(name) ==
    CASE name \in {"loan-created", "loan-registered-onchain"} -> {"active"}
      [] name = "repayment-recorded" -> {"repaid"}
      [] name = "loan-defaulted" -> {"defaulted"}
      [] name = "status-updated" -> Statuses

\* no request, handler or monitor cycle is in progress
NoOperation ==
    /\ http.pc = "idle"
    /\ \A h \in HandlerNames : hnd[h].pc = "idle"
    /\ mon.pc = "idle"

\* C30: whenever no operation is in progress, the stored status of a loan
\* is the one implied by the last status-changing event of its history.
C30_StatusFollowsLog ==
    NoOperation =>
        \A id \in AllIds :
            LET changes == SelectSeq(History(events, id),
                                     LAMBDA e : e \in StatusEvents)
            IN  changes # << >> =>
                   loans[id].status \in ImpliedStatus(changes[Len(changes)])

\* the health-check events of a loan among the events after the first n
HealthChecksSince(es, loan_id, n) ==
    Len(SelectSeq(SubSeq(es, n + 1, Len(es)),
                  LAMBDA e : e.loan = loan_id /\ e.event = "health-check"))

\* active with positive collateral
C31_Listed(loan) == loan.status = "active" /\ loan.collateralBTCb > 0

C32_FailureKeepsLooping ==
    /\ [][(ew'.pc = "exited" => ew.stop) /\ (mon'.pc = "exited" => mon.stop)]_vars
    /\ \A odd \in BOOLEAN :
          /\ (ew.pc = "poll" /\ ew.err /\ ew.odd = odd)
                ~> (~(ew.err /\ ew.odd = odd) \/ ew.stop)
          /\ (mon.pc = "idle" /\ mon.err /\ mon.odd = odd)
                ~> (~(mon.err /\ mon.odd = odd) \/ mon.stop)

\* C32 witness: both loops are at the head of a pass after a failed one,
\* the worker's after a failed log fetch, and neither is stopped
C32_Witness ==
    /\ ew.pc = "poll" /\ ew.err /\ ~ew.stop /\ fetched.to = 1 /\ ew.last = 0
    /\ mon.pc = "idle" /\ mon.err /\ mon.odd /\ ~mon.stop /\ used.cycles = 1

\* C33 as stated: once the stop event of a task queue is set, no worker
\* begins the callback of an item: a worker enters a callback only while
\* the stop event is clear.
C33_NoCallbackAfterStop ==
    [][\A x \in TqWorkers :
         (tq.stop /\ tq'.w[x].pc = "call") => tq.w[x].pc = "call"]_vars

C36_OneSuccessfulExecution ==
    /\ [](\A id \in TaskIds :
             tq.result[id] = "succeeded" => ~TqQueued(id) /\ ~TqHeld(id))
    /\ [][\A id \in TaskIds :
             tq.result[id] = "succeeded" =>
                tq'.result[id] = "succeeded" /\ tq'.calls[id] = tq.calls[id]]_vars

\* C36 witness: a callback returned on its 4th call while the other
\* worker is in the callback of the other task
C36_Witness ==
    /\ tq.result["k1"] = "succeeded" /\ tq.calls["k1"] = 4
    /\ tq.w["w1"].pc = "call" /\ tq.w["w1"].item.id = "k2"
    /\ tq.w["w0"].pc = "get"

\* C34: a handler at a log of the pass can always submit, whatever the
\* length of the queue and wherever the workers are; and a pass whose
\* handlers submit tasks ends with _last_block at the block it fetched
\* up to, also when no worker of the queue ever runs.
C34_SubmitNeverWaits ==
    /\ [](\A id \in TaskIds :
             (ew.pc = "handle" /\ ew.todo > 0 /\ tq.result[id] = "new") =>
                ENABLED (\E loan_id \in ReleaseIds : EwHandleRelease(loan_id, id)))
    /\ (ew.pc = "handle") ~> (ew.pc = "poll" /\ ew.last = ew.latest /\ ew.last = 1)

\* C34 witness: the pass has ended and _last_block has advanced; the two
\* tasks its handlers submitted are still in the queue, no worker having
\* taken one
C34_Witness ==
    /\ ew.pc = "poll" /\ ew.last = 1 /\ ew.logs = 2
    /\ Len(tq.queue) = 2
    /\ \A id \in TaskIds : tq.calls[id] = 0 /\ tq.result[id] = "pending"

\* a release of the loan was requested, was processed
ReleaseRequested(loan_id) ==
    \E i \in 1..Len(events) :
       events[i] = [loan |-> loan_id, event |-> "collateral-release-requested"]
ReleaseProcessed(loan_id) ==
    \E i \in 1..Len(events) :
       events[i] = [loan |-> loan_id, event |-> "collateral-release-processed"]

\* C38 as stated: a release is processed only while the stored collateral
\* is positive, and a release requested before the registration of the
\* loan is processed once the registration has been recorded.
C38_ReleaseAfterRegistration ==
    /\ [][\A loan_id \in ReleaseIds :
             (~ReleaseProcessed(loan_id) /\ ReleaseProcessed(loan_id)') =>
                loans[loan_id].collateralBTCb > 0]_vars
    /\ \A loan_id \in ReleaseIds :
          (ReleaseRequested(loan_id) /\ loans[loan_id].collateralBTCb > 0)
             ~> ReleaseProcessed(loan_id)

\* the blocks whose logs a get_logs call of the worker has returned
C37_Covered == { b \in 1..MaxHeight : ew.ranges[b] > 0 }

\* C37: the ranges of the get_logs calls that returned are contiguous and
\* disjoint: each begins one block above _last_block, which is the end of
\* the range before it, or the first _last_block (the start block, or the
\* height of the first poll) when there is none; a get_logs call that
\* raises leaves _last_block as it was; so the blocks fetched are those
\* above the first _last_block up to the end of the last range, each in
\* one range, and the handler is called once for each log of a range
\* before _last_block moves.
C37_RangesContiguous ==
    /\ [](/\ \A b \in 1..MaxHeight : ew.ranges[b] <= 1
          /\ ew.first = NoBlock => (ew.last = NoBlock /\ C37_Covered = {})
          /\ ew.first # NoBlock =>
                C37_Covered = (ew.first + 1) ..
                              (IF ew.pc = "handle" THEN ew.latest ELSE ew.last))
    /\ [][/\ (ew.pc = "fetch" /\ ew'.pc = "handle") =>
               /\ fetched'.from = ew.last + 1
               /\ fetched'.to = ew.latest
               /\ ew'.todo = ew'.logs
               /\ ew'.last = ew.last
          /\ (ew.pc = "fetch" /\ ew'.pc = "poll") =>
               ew'.last = ew.last /\ ew'.ranges = ew.ranges
          /\ (ew.pc = "handle" /\ ew'.pc = "handle" /\ ew'.stop = ew.stop /\ ew' # ew) =>
               ew'.todo = ew.todo - 1 /\ ew'.last = ew.last
          /\ (ew.pc = "handle" /\ ew'.pc = "poll") =>
               ew.todo = 0 /\ ew'.last = fetched.to]_vars

\* C37 witness: no start block was configured and the first poll read
\* height 1; block 2 was fetched and its two logs handled, then the
\* get_logs call for block 3 raised and _last_block is still 2
C37_Witness ==
    /\ ew.first = 1
    /\ ew.pc = "poll" /\ ew.err /\ ew.last = 2 /\ ew.logs = 2
    /\ fetched.from = 3 /\ fetched.to = 3
    /\ ew.ranges = [b \in 1..MaxHeight |-> IF b = 2 THEN 1 ELSE 0]

\* C39 as stated: a create-loan request passes the input checks only with
\* principal > 0, collateral > 0, 0 < ltv <= 70 and duration > 0; any other
\* request is answered 400 and the store, the terms rows included, is as
\* it was.
C39_RejectsBadNumbers ==
    [][(http.pc = "idle" /\ http'.pc # "idle") =>
          \/ /\ http'.c.principal > 0
             /\ http'.c.collateralBTCb > 0
             /\ http'.c.ltv > 0 /\ http'.c.ltv <= 70
             /\ http'.c.duration > 0
          \/ /\ http'.pc = "idle" /\ resp'.status = 400
             /\ UNCHANGED storeVars]_vars

\* C40 as stated: two bindings with the same binding hash have the same
\* normalized wallet, IBAN and rail user id, whether they are stored for
\* two wallets or one after the other for one wallet.
C40_HashIdentifiesTriple ==
    [][\A r \in links, q \in links \cup links' :
         r.bindingHash = q.bindingHash =>
            r.wallet = q.wallet /\ r.iban = q.iban /\ r.user = q.user]_vars

====
